---- MODULE Spec2Model ----
(***************************************************************************)
(* State-machine model of the AEP Solar Panel Planner core:                *)
(*   - AEPEditor2D (src/src/static/js/editor2d.js): element store, bounds  *)
(*     engine, selection / move / copy / paste / delete, auto-structure,   *)
(*     export / import;                                                    *)
(*   - AEPEditor3D (same file): the height field used by _buildBeams and   *)
(*     _buildPanels.                                                       *)
(* Coordinates are centimetres, kept as integers.  Sequence indices are    *)
(* 1-based here (index i of the model is index i-1 of the JavaScript       *)
(* arrays).  A handler that throws (a TypeError on a dangling selection    *)
(* entry) stops where it throws and keeps what it had already written.     *)
(***************************************************************************)
EXTENDS Integers, Sequences, FiniteSets, TLC

VARIABLES
    terraceVertices,     \* [{x, y}]
    constructionBounds,  \* Null or [minX, maxX, minY, maxY]
    panelBounds,         \* Null or [minX, maxX, minY, maxY]
    obstacles,           \* seq of obstacle records
    beams,               \* seq of beam records
    panels,              \* seq of panel records
    texts,               \* seq of text records
    currentTool,         \* active tool
    isDrawing,           \* a drag that creates an element is in progress
    dragStart,           \* a drag of the selection is in progress (dragStart is set)
    tempPoints,          \* terrace vertices clicked so far
    selectionRect,       \* Null or the rectangle of the area drag [x, y, w, h]
    isAreaAdditive,      \* the area drag adds to the selection
    selectedElements,    \* seq of [type, index]
    copiedElements,      \* seq of [type, data]
    panelConfig,         \* defaults of new panels
    textConfig,          \* defaults of new texts
    scale,               \* pixels per centimetre
    terraceCenter,       \* AEPEditor3D: centre of the terrace, doubled
    sceneBeams,          \* AEPEditor3D: the beams the scene was built from
    scenePanels,         \* AEPEditor3D: the panel meshes of the scene, one per panel
    scenePosts,          \* AEPEditor3D: the corner posts of the scene [x, z, postHeight]
    sceneConfig,         \* AEPEditor3D: Null or [height, inclination] of the scene
    structureSaveTimer,  \* page: Null or the handle of the save timer [id]
    timers,              \* browser: the timers set and not yet run or cleared [id, due]
    timerCount,          \* browser: setTimeout calls so far (the next handle)
    clock,               \* browser: the time in milliseconds
    form,                \* page: the value of the structure fields
    puts,                \* server: the PUT requests received [at, body]
    lastChange,          \* Null or [at, puts] of the last change of the form (history)
    last,                \* the last call and what it answered (history)
    steps                \* calls and events so far

collVars == <<obstacles, beams, panels, texts>>
terraceVars == <<terraceVertices, constructionBounds, panelBounds>>
areaVars == <<selectionRect, isAreaAdditive>>
toolVars == <<currentTool, isDrawing, dragStart, tempPoints, areaVars>>
cfgVars == <<panelConfig, textConfig, scale>>
viewVars == <<terraceCenter, sceneBeams, scenePanels, scenePosts, sceneConfig>>
saveVars == <<structureSaveTimer, timers, timerCount, clock, form, puts, lastChange>>
vars == <<terraceVertices, constructionBounds, panelBounds, obstacles, beams,
          panels, texts, currentTool, isDrawing, dragStart, tempPoints, selectionRect,
          isAreaAdditive, selectedElements, copiedElements, panelConfig, textConfig, scale, terraceCenter,
          sceneBeams, scenePanels, scenePosts, sceneConfig, structureSaveTimer,
          timers, timerCount, clock, form, puts, lastChange, last, steps>>

-----------------------------------------------------------------------------
(* Program constants *)

GridSize == 10
ConstructionMargin == 10
PanelMargin == 40
StructureMargin == 5
MinStructureSide == 50
MinBeamLength == 5
MinObstacleSize == 2
SelectThreshold == 5
DefaultTerraceWidth == 585
DefaultTerraceHeight == 388
DefaultPanelWidth == 114
DefaultPanelHeight == 228
DefaultPanelPower == 610
DefaultTextSize == 14
DefaultScale == 4

(* Bounds of the model *)

MaxElems == 2        \* elements in the editor when a tool adds one more
MaxSel == 2          \* entries an additive click may grow the selection to
MaxTemp == 3         \* terrace vertices clicked before confirming
MaxNumBeams == 2     \* numBeams given to createAutoStructure
MaxSteps == 7        \* calls and events of one run
MaxImports == 1      \* saved records imported into one editor
MaxChanges == 3      \* changes of the structure fields in one run
MaxClock == 1000     \* the time up to which the fields are changed
TickMs == 100        \* the step of the clock

-----------------------------------------------------------------------------
(* Values *)

Null == [isNull |-> TRUE]

Pt(px, py) == [x |-> px, y |-> py]

\* cursor positions (cm, before snapping) the mouse events are drawn from
MousePts == {Pt(2, 3), Pt(2, -3), Pt(300, 213)}

\* a cursor position far outside the terrace, for the tools the bounds can
\* refuse (panel placement, beam start)
FarPt == Pt(702, 498)

\* a cursor position right of the panel bounds of the default terrace, for
\* panel placement: it snaps to (610, 0)
EdgePt == Pt(612, 3)

\* (dx, dy) of _moveSelected: Shift+ArrowDown (a drag and the position
\* inspector pass any numbers)
Deltas == {<<0, 10>>}

\* (offsetX, offsetY) of paste: its defaults, what Ctrl+V passes
PasteOffsets == {<<10, 10>>}

\* where the k-th vertex of a terrace is clicked
TerraceClick(k) ==
    CASE k = 1 -> Pt(2, 3)
      [] k = 2 -> Pt(12, 3)
      [] k = 3 -> Pt(12, 12)
      [] OTHER -> Pt(2, 12)

\* (w, h) of setRectangularTerrace
RectSizes == {<<DefaultTerraceWidth, DefaultTerraceHeight>>}

Spacings == {30, 210}

\* (numBeams, spacing) of createAutoStructure: the form's values, and the
\* five beams at 100 of the infeasible request
AutoInputs == ((1..MaxNumBeams) \X Spacings) \cup {<<5, 100>>}

\* what the user answers to prompt(): Cancel, or a text
PromptAnswers == {[cancelled |-> TRUE, text |-> ""],
                  [cancelled |-> FALSE, text |-> " "],
                  [cancelled |-> FALSE, text |-> "Nota"]}

\* String.prototype.trim on the texts above
Trim(str) == IF str = " " THEN "" ELSE str

Profiles == {"IPN-80"}
Tools == {"select", "select-area", "draw-terrace", "add-obstacle", "add-beam",
          "place-panel", "add-text", "select-structure"}
Kinds == {"panel", "obstacle", "beam", "text"}

SetMin(S) == CHOOSE m \in S : \A n \in S : m <= n
SetMax(S) == CHOOSE m \in S : \A n \in S : m >= n
Abs(n) == IF n < 0 THEN -n ELSE n

\* the elements; nan marks a record whose coordinates are NaN (the copy of a
\* missing element, {} in the code, gets NaN coordinates when it is pasted)
NaNPanel == [x |-> 0, y |-> 0, w |-> 0, h |-> 0, realHeight |-> 0,
             inclination |-> 0, power |-> 0, nan |-> TRUE]
NaNObstacle == [x |-> 0, y |-> 0, w |-> 0, h |-> 0, type |-> "", nan |-> TRUE]
NaNBeam == [x1 |-> 0, y1 |-> 0, x2 |-> 0, y2 |-> 0, profile |-> "",
            isAutoStructure |-> FALSE, nan |-> TRUE]
NaNText == [x |-> 0, y |-> 0, text |-> "", size |-> 0, nan |-> TRUE]

Sel(t, i) == [type |-> t, index |-> i]

Call(op, a, b, res) == [op |-> op, a |-> a, b |-> b, res |-> res]

-----------------------------------------------------------------------------
(* Coordinate transform *)

\* snap(val): Math.round(val / gridSize) * gridSize, snapEnabled being true
snap(val) == ((2 * val + GridSize) \div (2 * GridSize)) * GridSize

Snapped(cm) == Pt(snap(cm.x), snap(cm.y))

-----------------------------------------------------------------------------
(* Bounds engine *)

BoundsOfVertices(vs) ==
    LET xs == {vs[i].x : i \in 1..Len(vs)}
        ys == {vs[i].y : i \in 1..Len(vs)}
    IN  [minX |-> SetMin(xs), maxX |-> SetMax(xs),
         minY |-> SetMin(ys), maxY |-> SetMax(ys),
         width |-> SetMax(xs) - SetMin(xs),
         height |-> SetMax(ys) - SetMin(ys)]

getTerraceBoundsOf(vs) == IF Len(vs) < 3 THEN Null ELSE BoundsOfVertices(vs)

getTerraceBounds == getTerraceBoundsOf(terraceVertices)

_calculateConstructionBounds(bounds, margin) ==
    [minX |-> bounds.minX - margin, maxX |-> bounds.maxX + margin,
     minY |-> bounds.minY - margin, maxY |-> bounds.maxY + margin]

\* the panel bounds taken inside the construction bounds
_calculatePanelBounds_Inward(bounds, margin) ==
    [minX |-> bounds.minX + margin, maxX |-> bounds.maxX - margin,
     minY |-> bounds.minY + margin, maxY |-> bounds.maxY - margin]

_calculatePanelBounds(bounds, margin) ==
    [minX |-> bounds.minX - margin, maxX |-> bounds.maxX + margin,
     minY |-> bounds.minY - margin, maxY |-> bounds.maxY + margin]

\* _isWithinConstructionBounds refusing every point while there are no bounds
_isWithinConstructionBounds_Bounded(x, y) ==
    /\ constructionBounds # Null
    /\ x >= constructionBounds.minX /\ x <= constructionBounds.maxX
    /\ y >= constructionBounds.minY /\ y <= constructionBounds.maxY

_isWithinConstructionBounds(x, y) ==
    IF constructionBounds = Null THEN TRUE
    ELSE /\ x >= constructionBounds.minX /\ x <= constructionBounds.maxX
         /\ y >= constructionBounds.minY /\ y <= constructionBounds.maxY

\* only the top left corner of rect compared with the panel bounds
_isRectWithinPanelBounds_Corner(rect) ==
    IF panelBounds = Null THEN TRUE
    ELSE /\ ~rect.nan
         /\ rect.x >= panelBounds.minX /\ rect.y >= panelBounds.minY
         /\ rect.x <= panelBounds.maxX /\ rect.y <= panelBounds.maxY

\* rect = [x, y, w, h, nan]; every comparison with NaN is false
_isRectWithinPanelBounds(rect) ==
    IF panelBounds = Null THEN TRUE
    ELSE /\ ~rect.nan
         /\ rect.x >= panelBounds.minX /\ rect.y >= panelBounds.minY
         /\ rect.x + rect.w <= panelBounds.maxX
         /\ rect.y + rect.h <= panelBounds.maxY

_isLineWithinConstructionBounds(x1, y1, x2, y2) ==
    IF constructionBounds = Null THEN TRUE
    ELSE _isWithinConstructionBounds(x1, y1) /\ _isWithinConstructionBounds(x2, y2)

\* the terrace and both bounds after the terrace is set to vs
\* (confirmTerrace, _onDoubleClick, setRectangularTerrace: bounds only when
\* getTerraceBounds() is not null)
TerraceSet(vs) ==
    LET b == getTerraceBoundsOf(vs)
        cb == IF b = Null THEN constructionBounds
              ELSE _calculateConstructionBounds(b, ConstructionMargin)
        pb == IF b = Null THEN panelBounds
              ELSE _calculatePanelBounds(cb, PanelMargin)
    IN  [vertices |-> vs, cb |-> cb, pb |-> pb]

RectVertices(w, h) == <<Pt(0, 0), Pt(w, 0), Pt(w, h), Pt(0, h)>>

-----------------------------------------------------------------------------
(* The editor after construction *)

\* the page after the script has run: no save timer, nothing sent
InitSave ==
    /\ structureSaveTimer = Null
    /\ timers = {}
    /\ timerCount = 0
    /\ clock = 0
    /\ form = 20
    /\ puts = <<>>
    /\ lastChange = Null

Init ==
    /\ terraceVertices = <<>>
    /\ constructionBounds = Null
    /\ panelBounds = Null
    /\ obstacles = <<>>
    /\ beams = <<>>
    /\ panels = <<>>
    /\ texts = <<>>
    /\ currentTool = "select"
    /\ isDrawing = FALSE
    /\ dragStart = FALSE
    /\ tempPoints = <<>>
    /\ selectionRect = Null
    /\ isAreaAdditive = FALSE
    /\ selectedElements = <<>>
    /\ copiedElements = <<>>
    /\ panelConfig = [width |-> DefaultPanelWidth, height |-> DefaultPanelHeight,
                      inclination |-> 0, power |-> DefaultPanelPower]
    /\ textConfig = [content |-> "Texto", size |-> DefaultTextSize]
    /\ scale = DefaultScale
    /\ terraceCenter = Pt(0, 0)
    /\ sceneBeams = <<>>
    /\ scenePanels = <<>>
    /\ scenePosts = <<>>
    /\ InitSave
    /\ sceneConfig = Null
    /\ last = Call("new", 0, 0, "ok")
    /\ steps = 0

NumElems == Len(obstacles) + Len(beams) + Len(panels) + Len(texts)

-----------------------------------------------------------------------------
(* Terrace *)

\* confirmTerrace(): the "Confirmar" button (with fewer than 3 points it only
\* shows a warning)
ConfirmTerrace ==
    /\ Len(tempPoints) >= 3
    /\ LET t == TerraceSet(tempPoints)
       IN  /\ terraceVertices' = t.vertices
           /\ constructionBounds' = t.cb
           /\ panelBounds' = t.pb
    /\ tempPoints' = <<>>
    /\ last' = Call("confirmTerrace", 0, 0, "ok")
    /\ UNCHANGED <<collVars, currentTool, isDrawing, dragStart, areaVars,
                   selectedElements, copiedElements, cfgVars>>

\* setRectangularTerrace(w, h)
SetRectangularTerrace(w, h) ==
    LET t == TerraceSet(RectVertices(w, h))
    IN  /\ terraceVertices' = t.vertices
        /\ constructionBounds' = t.cb
        /\ panelBounds' = t.pb
        /\ last' = Call("setRectangularTerrace", w, h, "ok")
        /\ UNCHANGED <<collVars, toolVars, selectedElements, copiedElements, cfgVars>>

\* clearAll(): writes selectedElement (no such field is read anywhere), so the
\* selection, the clipboard and the tool state stay
ClearAll ==
    /\ terraceVertices' = <<>>
    /\ constructionBounds' = Null
    /\ panelBounds' = Null
    /\ obstacles' = <<>>
    /\ beams' = <<>>
    /\ panels' = <<>>
    /\ texts' = <<>>
    /\ tempPoints' = <<>>
    /\ last' = Call("clearAll", 0, 0, "ok")
    /\ UNCHANGED <<currentTool, isDrawing, dragStart, areaVars, selectedElements,
                   copiedElements, cfgVars>>

-----------------------------------------------------------------------------
(* Sequences as JavaScript arrays *)

RemoveAt(seq, i) == SubSeq(seq, 1, i - 1) \o SubSeq(seq, i + 1, Len(seq))

\* Array.prototype.splice(index, 1): nothing when index is past the end
Splice1(seq, i) == IF i \in 1..Len(seq) THEN RemoveAt(seq, i) ELSE seq

\* Array.prototype.pop(): nothing on an empty array
Pop(seq) == IF seq = <<>> THEN seq ELSE SubSeq(seq, 1, Len(seq) - 1)

SetLast(seq, e) == [seq EXCEPT ![Len(seq)] = e]

Coll(kind) ==
    CASE kind = "panel" -> panels
      [] kind = "obstacle" -> obstacles
      [] kind = "beam" -> beams
      [] kind = "text" -> texts

\* the four collections as one value
Store == [panel |-> panels, obstacle |-> obstacles, beam |-> beams, text |-> texts]

-----------------------------------------------------------------------------
(* Hit testing *)

\* ctx.measureText(text).width at `${size}px sans-serif`, in pixels
MeasureTextPx(text, size) ==
    LET chars == CASE text = "Texto" -> 5 [] text = "Nota" -> 4 [] OTHER -> 9
    IN  (chars * size) \div 2

\* _getTextRect: {x, y, w: textWpx / pxPerCm, h: size / pxPerCm}, zoomLevel = 1;
\* the containment of _getTextIndexAt, multiplied through by pxPerCm
TextContains(t, cm) ==
    LET pxPerCm == scale
    IN  /\ ~t.nan
        /\ cm.x >= t.x
        /\ cm.x * pxPerCm <= t.x * pxPerCm + MeasureTextPx(t.text, t.size)
        /\ cm.y * pxPerCm >= t.y * pxPerCm - t.size
        /\ cm.y <= t.y

\* the highest of the indices hits, 0 for none (-1 in the code): the loops run
\* from the last element down
LastIndex(hits) == IF hits = {} THEN 0 ELSE SetMax(hits)

_getTextIndexAt(cm) == LastIndex({i \in 1..Len(texts) : TextContains(texts[i], cm)})

RectContains(r, cm) ==
    /\ ~r.nan
    /\ cm.x >= r.x /\ cm.x <= r.x + r.w
    /\ cm.y >= r.y /\ cm.y <= r.y + r.h

\* _pointNearLine: distance from (px, py) to the segment below threshold,
\* compared on the squares (inside the segment the distance is
\* |cross| / length; the square is taken only where it fits 32 bits)
_pointNearLine(px, py, x1, y1, x2, y2, threshold) ==
    LET dx == x2 - x1
        dy == y2 - y1
        len2 == dx * dx + dy * dy
        pa2 == (px - x1) * (px - x1) + (py - y1) * (py - y1)
        pb2 == (px - x2) * (px - x2) + (py - y2) * (py - y2)
        dot == (px - x1) * dx + (py - y1) * dy
        cross == Abs((px - x1) * dy - (py - y1) * dx)
        th2 == threshold * threshold
    IN  IF len2 = 0 THEN pa2 < th2
        ELSE IF dot <= 0 THEN pa2 < th2
        ELSE IF dot >= len2 THEN pb2 < th2
        ELSE cross < 46341 /\ cross * cross < th2 * len2

BeamNear(b, cm) ==
    ~b.nan /\ _pointNearLine(cm.x, cm.y, b.x1, b.y1, b.x2, b.y2, SelectThreshold)

\* the points clicked with the select tool on the drawing of InitSelect:
\* over both texts, over the first text, over both panels, over the first
\* panel, over both obstacles, over the first obstacle, near both beams, near
\* the first beam, and on nothing
SelectPts == {Pt(105, 98), Pt(101, 98), Pt(105, 110), Pt(95, 85), Pt(87, 78),
              Pt(82, 72), Pt(20, 99), Pt(20, 94), Pt(20, 20)}

\* _handleSelect with the loops running from the first element up
HitEntry_Lowest(cm) ==
    LET ti == {i \in 1..Len(texts) : TextContains(texts[i], cm)}
        pi == {i \in 1..Len(panels) : RectContains(panels[i], cm)}
        oi == {i \in 1..Len(obstacles) : RectContains(obstacles[i], cm)}
        bi == {i \in 1..Len(beams) : BeamNear(beams[i], cm)}
    IN  IF ti # {} THEN Sel("text", SetMin(ti))
        ELSE IF pi # {} THEN Sel("panel", SetMin(pi))
        ELSE IF oi # {} THEN Sel("obstacle", SetMin(oi))
        ELSE IF bi # {} THEN Sel("beam", SetMin(bi))
        ELSE Null

\* the element _handleSelect picks: text, then panel, then obstacle, then beam
HitEntry(cm) ==
    LET ti == _getTextIndexAt(cm)
        pi == LastIndex({i \in 1..Len(panels) : RectContains(panels[i], cm)})
        oi == LastIndex({i \in 1..Len(obstacles) : RectContains(obstacles[i], cm)})
        bi == LastIndex({i \in 1..Len(beams) : BeamNear(beams[i], cm)})
    IN  IF ti # 0 THEN Sel("text", ti)
        ELSE IF pi # 0 THEN Sel("panel", pi)
        ELSE IF oi # 0 THEN Sel("obstacle", oi)
        ELSE IF bi # 0 THEN Sel("beam", bi)
        ELSE Null

\* _applySelection without the search for the entry: an additive click appends
_applySelection_Append(sel, entry, isAdditive) ==
    IF ~isAdditive THEN <<entry>> ELSE Append(sel, entry)

\* _applySelection(type, index, isAdditive): the selection afterwards
_applySelection(sel, entry, isAdditive) ==
    LET where == {k \in 1..Len(sel) : sel[k] = entry}
    IN  IF ~isAdditive THEN <<entry>>
        ELSE IF where # {} THEN RemoveAt(sel, SetMin(where))
        ELSE Append(sel, entry)

\* _handleSelect(cm, event): the selection afterwards
_handleSelect(cm, isAdditive) ==
    LET hit == HitEntry(cm)
    IN  IF hit # Null THEN _applySelection(selectedElements, hit, isAdditive)
        ELSE IF ~isAdditive THEN <<>>
        ELSE selectedElements

-----------------------------------------------------------------------------
(* Area select *)

\* where an area drag starts and where it is taken to
AreaPts == {Pt(11, 11), Pt(101, 101), Pt(151, 61)}

\* _startAreaSelect(cm): the rectangle of the drag
_startAreaSelect(cm) == [x |-> cm.x, y |-> cm.y, w |-> 0, h |-> 0]

\* _updateAreaSelect(cm): the rectangle of the drag afterwards
_updateAreaSelect(cm) ==
    IF selectionRect = Null THEN selectionRect
    ELSE [selectionRect EXCEPT !.w = cm.x - selectionRect.x,
                               !.h = cm.y - selectionRect.y]

\* _rectsIntersect(r1, r2), r2 given in 1/m of a centimetre (a text rectangle
\* is in pixels); a comparison with NaN is false
_rectsIntersect(r1, r2, m) ==
    \/ r2.nan
    \/ ~(\/ m * (r1.x + r1.w) < r2.x
         \/ r2.x + r2.w < m * r1.x
         \/ m * (r1.y + r1.h) < r2.y
         \/ r2.y + r2.h < m * r1.y)

\* _linesIntersect(x1, y1, x2, y2, x3, y3, x4, y4): t and u compared with 0
\* and 1 through their numerators and denom
_linesIntersect(x1, y1, x2, y2, x3, y3, x4, y4) ==
    LET denom == (x1 - x2) * (y3 - y4) - (y1 - y2) * (x3 - x4)
        tnum == (x1 - x3) * (y3 - y4) - (y1 - y3) * (x3 - x4)
        unum == -((x1 - x2) * (y1 - y3) - (y1 - y2) * (x1 - x3))
        unit(n) == IF denom > 0 THEN 0 <= n /\ n <= denom
                   ELSE denom <= n /\ n <= 0
    IN  IF denom = 0 THEN FALSE ELSE unit(tnum) /\ unit(unum)

\* _lineIntersectsRect(x1, y1, x2, y2, rect): top, right, bottom, left
_lineIntersectsRect(x1, y1, x2, y2, rect) ==
    LET rx == rect.x
        ry == rect.y
        rX == rect.x + rect.w
        rY == rect.y + rect.h
    IN  \/ _linesIntersect(x1, y1, x2, y2, rx, ry, rX, ry)
        \/ _linesIntersect(x1, y1, x2, y2, rX, ry, rX, rY)
        \/ _linesIntersect(x1, y1, x2, y2, rX, rY, rx, rY)
        \/ _linesIntersect(x1, y1, x2, y2, rx, rY, rx, ry)

\* rect with negative dimensions normalised
NormalizeRect(rect) ==
    [x |-> IF rect.w < 0 THEN rect.x + rect.w ELSE rect.x,
     y |-> IF rect.h < 0 THEN rect.y + rect.h ELSE rect.y,
     w |-> Abs(rect.w), h |-> Abs(rect.h)]

\* the test of _finishAreaSelect for the element e of a kind: panels and
\* obstacles by their rectangle, texts by { x, y - h, w, h } of _getTextRect
\* (in pixels), beams by their segment
AreaHit(kind, e, rect) ==
    CASE kind = "beam" ->
            ~e.nan /\ _lineIntersectsRect(e.x1, e.y1, e.x2, e.y2, rect)
      [] kind = "text" ->
            _rectsIntersect(rect, [x |-> scale * e.x, y |-> scale * e.y - e.size,
                                   w |-> MeasureTextPx(e.text, e.size), h |-> e.size,
                                   nan |-> e.nan], scale)
      [] OTHER ->
            _rectsIntersect(rect, [x |-> e.x, y |-> e.y, w |-> e.w, h |-> e.h,
                                   nan |-> e.nan], 1)

\* forEach of _finishAreaSelect over one collection, from index i on
RECURSIVE AreaPick(_, _, _)
AreaPick(kind, i, rect) ==
    IF i > Len(Coll(kind)) THEN <<>>
    ELSE (IF AreaHit(kind, Coll(kind)[i], rect) THEN <<Sel(kind, i)>> ELSE <<>>)
         \o AreaPick(kind, i + 1, rect)

\* the additive loop of _finishAreaSelect: the items not yet in sel pushed
RECURSIVE PushNew(_, _, _)
PushNew(sel, items, k) ==
    IF k > Len(items) THEN sel
    ELSE PushNew(IF \E j \in 1..Len(sel) : sel[j] = items[k] THEN sel
                 ELSE Append(sel, items[k]),
                 items, k + 1)

\* _finishAreaSelect(): the selection afterwards
_finishAreaSelect ==
    LET rect == NormalizeRect(selectionRect)
        areaSelection == AreaPick("panel", 1, rect) \o AreaPick("text", 1, rect)
                         \o AreaPick("obstacle", 1, rect) \o AreaPick("beam", 1, rect)
    IN  IF isAreaAdditive THEN PushNew(selectedElements, areaSelection, 1)
        ELSE areaSelection

-----------------------------------------------------------------------------
(* Move *)

\* an element with dx, dy added to its coordinates (NaN stays NaN)
Shift(kind, e, dx, dy) ==
    IF e.nan THEN e
    ELSE IF kind = "beam"
         THEN [e EXCEPT !.x1 = @ + dx, !.y1 = @ + dy, !.x2 = @ + dx, !.y2 = @ + dy]
         ELSE [e EXCEPT !.x = @ + dx, !.y = @ + dy]

PanelFits(p) == _isRectWithinPanelBounds([x |-> p.x, y |-> p.y, w |-> p.w, h |-> p.h, nan |-> p.nan])

\* _isLineWithinConstructionBounds on a beam record (a NaN coordinate fails
\* every comparison)
BeamFits(b) ==
    IF b.nan THEN constructionBounds = Null
    ELSE _isLineWithinConstructionBounds(b.x1, b.y1, b.x2, b.y2)

\* selectedElements.every(...) of _moveSelected from entry k on: "ok", "reject",
\* or "throw" when a panel or beam entry refers to no element
RECURSIVE CanMoveFrom(_, _, _, _)
CanMoveFrom(sel, k, dx, dy) ==
    IF k > Len(sel) THEN "ok"
    ELSE LET e == sel[k]
         IN  IF e.type \in {"panel", "beam"}
             THEN IF e.index > Len(Coll(e.type)) THEN "throw"
                  ELSE IF e.type = "panel" /\ ~PanelFits(Shift("panel", panels[e.index], dx, dy))
                       THEN "reject"
                  ELSE IF e.type = "beam" /\ ~BeamFits(Shift("beam", beams[e.index], dx, dy))
                       THEN "reject"
                  ELSE CanMoveFrom(sel, k + 1, dx, dy)
             ELSE CanMoveFrom(sel, k + 1, dx, dy)

\* the loop of _moveSelected that writes the new coordinates, from entry k on;
\* it stops at the first entry that refers to no element (TypeError)
RECURSIVE MoveLoop(_, _, _, _, _)
MoveLoop(st, sel, k, dx, dy) ==
    IF k > Len(sel) THEN st
    ELSE LET e == sel[k]
         IN  IF e.index > Len(st[e.type]) THEN st
             ELSE MoveLoop([st EXCEPT ![e.type][e.index] = Shift(e.type, @, dx, dy)],
                           sel, k + 1, dx, dy)

HasDangling(sel) == \E k \in 1..Len(sel) : sel[k].index > Len(Coll(sel[k].type))

\* _moveSelected(dx, dy): the collections afterwards and the outcome
_moveSelected(dx, dy) ==
    LET check == IF constructionBounds # Null
                 THEN CanMoveFrom(selectedElements, 1, dx, dy) ELSE "ok"
    IN  IF selectedElements = <<>> THEN [store |-> Store, res |-> "empty"]
        ELSE IF check = "throw" THEN [store |-> Store, res |-> "threw"]
        ELSE IF check = "reject" THEN [store |-> Store, res |-> "rejected"]
        ELSE [store |-> MoveLoop(Store, selectedElements, 1, dx, dy),
              res |-> IF HasDangling(selectedElements) THEN "threw" ELSE "moved"]

SetStore(st) ==
    /\ panels' = st.panel
    /\ obstacles' = st.obstacle
    /\ beams' = st.beam
    /\ texts' = st.text

\* an arrow key, the position inspector or a drag: _moveSelected(dx, dy)
MoveSelected(dx, dy) ==
    LET r == _moveSelected(dx, dy)
    IN  /\ selectedElements # <<>>
        /\ SetStore(r.store)
        /\ last' = Call("_moveSelected", dx, dy, r.res)
        /\ UNCHANGED <<terraceVars, toolVars, selectedElements, copiedElements, cfgVars>>

-----------------------------------------------------------------------------
(* Delete, copy, paste *)

\* Array.prototype.sort((a, b) => b.index - a.index): stable, index descending
InsertDesc(sorted, e) ==
    LET n == Cardinality({k \in 1..Len(sorted) : sorted[k].index >= e.index})
    IN  SubSeq(sorted, 1, n) \o <<e>> \o SubSeq(sorted, n + 1, Len(sorted))

RECURSIVE SortDesc(_)
SortDesc(sel) ==
    IF sel = <<>> THEN <<>>
    ELSE InsertDesc(SortDesc(SubSeq(sel, 1, Len(sel) - 1)), sel[Len(sel)])

RECURSIVE DeleteLoop(_, _, _)
DeleteLoop(st, sel, k) ==
    IF k > Len(sel) THEN st
    ELSE DeleteLoop([st EXCEPT ![sel[k].type] = Splice1(@, sel[k].index)], sel, k + 1)

\* the splices in the order of the selection
deleteSelected_Unsorted ==
    [sel |-> selectedElements, store |-> DeleteLoop(Store, selectedElements, 1)]

\* deleteSelected(): the selection (sorted in place, not emptied) and the
\* collections afterwards
deleteSelected ==
    IF selectedElements = <<>> THEN [sel |-> selectedElements, store |-> Store]
    ELSE LET sorted == SortDesc(selectedElements)
         IN  [sel |-> sorted, store |-> DeleteLoop(Store, sorted, 1)]

\* the Delete key
DeleteSelected ==
    LET r == deleteSelected
    IN  /\ selectedElements # <<>>
        /\ SetStore(r.store)
        /\ selectedElements' = r.sel
        /\ last' = Call("deleteSelected", 0, 0,
                        IF HasDangling(selectedElements) THEN "stale" ELSE "ok")
        /\ UNCHANGED <<terraceVars, toolVars, copiedElements, cfgVars>>

NaNOf(kind) ==
    CASE kind = "panel" -> NaNPanel
      [] kind = "obstacle" -> NaNObstacle
      [] kind = "beam" -> NaNBeam
      [] kind = "text" -> NaNText

\* copySelected without the reset of the clipboard: the copies are added to
\* what it holds
copySelected_Append ==
    IF selectedElements = <<>> THEN copiedElements
    ELSE copiedElements \o
         [k \in 1..Len(selectedElements) |->
            LET e == selectedElements[k]
            IN  [type |-> e.type,
                 data |-> IF e.index > Len(Coll(e.type)) THEN NaNOf(e.type)
                          ELSE Coll(e.type)[e.index]]]

\* copySelected(): the clipboard afterwards; { ...undefined } is {}: an entry
\* that refers to no element is copied as a record without coordinates
copySelected ==
    IF selectedElements = <<>> THEN copiedElements
    ELSE [k \in 1..Len(selectedElements) |->
            LET e == selectedElements[k]
            IN  [type |-> e.type,
                 data |-> IF e.index > Len(Coll(e.type)) THEN NaNOf(e.type)
                          ELSE Coll(e.type)[e.index]]]

\* Ctrl+C
CopySelected ==
    /\ selectedElements # <<>>
    /\ copiedElements' = copySelected
    /\ last' = Call("copySelected", 0, 0, "true")
    /\ UNCHANGED <<terraceVars, collVars, toolVars, selectedElements, cfgVars>>

\* copiedElements.every(...) looking at the panels only
canPaste_PanelsOnly(offsetX, offsetY) ==
    \A k \in 1..Len(copiedElements) :
        LET item == copiedElements[k]
        IN  item.type = "panel" => PanelFits(Shift("panel", item.data, offsetX, offsetY))

\* copiedElements.every(...) of paste
canPaste(offsetX, offsetY) ==
    \A k \in 1..Len(copiedElements) :
        LET item == copiedElements[k]
        IN  CASE item.type = "panel" -> PanelFits(Shift("panel", item.data, offsetX, offsetY))
              [] item.type = "beam" -> BeamFits(Shift("beam", item.data, offsetX, offsetY))
              [] OTHER -> TRUE

\* the loop of paste that appends, from clipboard entry k on: the collections
\* and the entries of the new elements
RECURSIVE PasteLoop(_, _, _, _, _)
PasteLoop(st, new, k, offsetX, offsetY) ==
    IF k > Len(copiedElements) THEN [store |-> st, new |-> new]
    ELSE LET item == copiedElements[k]
             data == Shift(item.type, item.data, offsetX, offsetY)
             grown == Append(st[item.type], data)
         IN  PasteLoop([st EXCEPT ![item.type] = grown],
                       Append(new, Sel(item.type, Len(grown))),
                       k + 1, offsetX, offsetY)

\* paste(offsetX, offsetY): the collections, the selection and the outcome
paste(offsetX, offsetY) ==
    IF copiedElements = <<>>
    THEN [store |-> Store, sel |-> selectedElements, res |-> "empty"]
    ELSE IF constructionBounds # Null /\ ~canPaste(offsetX, offsetY)
    THEN [store |-> Store, sel |-> selectedElements, res |-> "rejected"]
    ELSE LET r == PasteLoop(Store, <<>>, 1, offsetX, offsetY)
         IN  [store |-> r.store, sel |-> r.new, res |-> "pasted"]

\* Ctrl+V
Paste(offsetX, offsetY) ==
    LET r == paste(offsetX, offsetY)
    IN  /\ copiedElements # <<>>
        /\ SetStore(r.store)
        /\ selectedElements' = r.sel
        /\ last' = Call("paste", offsetX, offsetY, r.res)
        /\ UNCHANGED <<terraceVars, toolVars, copiedElements, cfgVars>>

-----------------------------------------------------------------------------
(* Tools and mouse *)

IsAuto(b) == ~b.nan /\ b.isAutoStructure

\* the indices (ascending, from k on) of the beams of the automatic structure
RECURSIVE AutoIndices(_)
AutoIndices(k) ==
    IF k > Len(beams) THEN <<>>
    ELSE (IF IsAuto(beams[k]) THEN <<k>> ELSE <<>>) \o AutoIndices(k + 1)

\* setTool(tool)
SetTool(tool) ==
    /\ currentTool' = tool
    /\ tempPoints' = <<>>
    /\ isDrawing' = FALSE
    /\ selectedElements' =
          IF tool = "select-structure"
          THEN LET idx == AutoIndices(1)
               IN  [k \in 1..Len(idx) |-> Sel("beam", idx[k])]
          ELSE <<>>
    /\ last' = Call("setTool", 0, 0, "ok")
    /\ UNCHANGED <<terraceVars, collVars, dragStart, areaVars, copiedElements, cfgVars>>

\* a placement that does not look at the panel bounds
_placePanel_Unchecked(cm) ==
    Append(panels, [x |-> cm.x, y |-> cm.y, w |-> panelConfig.width,
                    h |-> panelConfig.height, realHeight |-> panelConfig.height,
                    inclination |-> panelConfig.inclination,
                    power |-> panelConfig.power, nan |-> FALSE])

\* _placePanel(cm): the panel collection afterwards (inclination 0: the
\* projected height is the height)
_placePanel(cm) ==
    LET projectedHeight == panelConfig.height
        panelRect == [x |-> cm.x, y |-> cm.y, w |-> panelConfig.width,
                      h |-> projectedHeight, nan |-> FALSE]
    IN  IF ~_isRectWithinPanelBounds(panelRect) THEN panels
        ELSE Append(panels, [x |-> cm.x, y |-> cm.y, w |-> panelConfig.width,
                             h |-> projectedHeight,
                             realHeight |-> panelConfig.height,
                             inclination |-> panelConfig.inclination,
                             power |-> panelConfig.power, nan |-> FALSE])

\* _placeText(cm) when prompt() answers ans: the text collection afterwards
_placeText(cm, ans) ==
    IF ans.cancelled \/ Trim(ans.text) = "" THEN texts
    ELSE Append(texts, [x |-> cm.x, y |-> cm.y, text |-> Trim(ans.text),
                        size |-> textConfig.size, nan |-> FALSE])

\* _onMouseDown with the left button at cm; ctrl: ctrlKey or metaKey held
\* (read by the select tool only); ans: the answer to the prompt of the text
\* tool (no other tool asks)
MouseDown(cm, ctrl, ans) ==
    LET snapped == Snapped(cm)
    IN  /\ currentTool # "select-structure"
        /\ ctrl => currentTool \in {"select", "select-area"}
        /\ ~ans.cancelled => currentTool = "add-text"
        /\ currentTool # "draw-terrace" =>
              cm \in MousePts \cup {FarPt, EdgePt} \cup AreaPts \cup SelectPts
        /\ cm \in AreaPts => currentTool = "select-area"
        /\ cm \in SelectPts => currentTool = "select"
        /\ currentTool = "select-area" => cm \in AreaPts \cup {Pt(2, -3)}
        /\ (ctrl /\ currentTool = "select-area") => cm \in AreaPts
        /\ currentTool # "select-area" => UNCHANGED areaVars
        /\ cm = FarPt => /\ constructionBounds # Null
                         /\ currentTool \in {"place-panel", "add-beam"}
        /\ cm = EdgePt => constructionBounds # Null /\ currentTool = "place-panel"
        /\ CASE currentTool = "select" ->
                  /\ selectedElements' = _handleSelect(cm, ctrl)
                  /\ Len(selectedElements') <= MaxSel
                  /\ dragStart' = (dragStart \/ HitEntry(cm) # Null)
                  /\ last' = Call("_handleSelect", 0, 0,
                                  IF HitEntry(cm) # Null THEN "hit" ELSE "miss")
                  /\ UNCHANGED <<collVars, isDrawing, tempPoints>>
             [] currentTool = "select-area" ->
                  /\ isDrawing' = TRUE
                  /\ selectionRect' = _startAreaSelect(cm)
                  /\ isAreaAdditive' = ctrl
                  /\ selectedElements' = IF ctrl THEN selectedElements ELSE <<>>
                  /\ last' = Call("_startAreaSelect", 0, 0, "ok")
                  /\ UNCHANGED <<collVars, dragStart, tempPoints>>
             [] currentTool = "draw-terrace" ->
                  /\ Len(tempPoints) < MaxTemp
                  /\ cm = TerraceClick(Len(tempPoints) + 1)
                  /\ tempPoints' = Append(tempPoints, snapped)
                  /\ last' = Call("tempPoints.push", 0, 0, "ok")
                  /\ UNCHANGED <<collVars, isDrawing, dragStart, selectedElements>>
             [] currentTool = "add-obstacle" ->
                  /\ NumElems < MaxElems
                  /\ isDrawing' = TRUE
                  /\ obstacles' = Append(obstacles,
                        [x |-> snapped.x, y |-> snapped.y, w |-> 0, h |-> 0,
                         type |-> "column", nan |-> FALSE])
                  /\ last' = Call("_startObstacle", 0, 0, "ok")
                  /\ UNCHANGED <<beams, panels, texts, dragStart, tempPoints,
                                 selectedElements>>
             [] currentTool = "add-beam" ->
                  IF ~_isWithinConstructionBounds(snapped.x, snapped.y)
                  THEN /\ last' = Call("_startBeam", 0, 0, "rejected")
                       /\ UNCHANGED <<collVars, isDrawing, dragStart, tempPoints,
                                      selectedElements>>
                  ELSE /\ NumElems < MaxElems
                       /\ isDrawing' = TRUE
                       /\ beams' = Append(beams,
                             [x1 |-> snapped.x, y1 |-> snapped.y,
                              x2 |-> snapped.x, y2 |-> snapped.y,
                              profile |-> "IPN-80", isAutoStructure |-> FALSE,
                              nan |-> FALSE])
                       /\ last' = Call("_startBeam", 0, 0, "ok")
                       /\ UNCHANGED <<obstacles, panels, texts, dragStart, tempPoints,
                                      selectedElements>>
             [] currentTool = "place-panel" ->
                  /\ NumElems < MaxElems
                  /\ panels' = _placePanel(snapped)
                  /\ last' = Call("_placePanel", snapped.x, snapped.y,
                                  IF Len(panels') = Len(panels) THEN "rejected" ELSE "ok")
                  /\ UNCHANGED <<obstacles, beams, texts, isDrawing, dragStart,
                                 tempPoints, selectedElements>>
             [] currentTool = "add-text" ->
                  /\ NumElems < MaxElems
                  /\ texts' = _placeText(snapped, ans)
                  /\ last' = Call("_placeText", ans, 0,
                                  IF Len(texts') = Len(texts) THEN "none" ELSE "ok")
                  /\ UNCHANGED <<obstacles, beams, panels, isDrawing, dragStart,
                                 tempPoints, selectedElements>>
        /\ UNCHANGED <<terraceVars, currentTool, copiedElements, cfgVars>>

\* _updateObstacle(cm): the obstacle collection afterwards (a TypeError on an
\* empty collection)
_updateObstacle(cm) ==
    IF obstacles = <<>> THEN obstacles
    ELSE LET o == obstacles[Len(obstacles)]
         IN  IF o.nan THEN obstacles
             ELSE SetLast(obstacles, [o EXCEPT !.w = snap(cm.x) - o.x,
                                               !.h = snap(cm.y) - o.y])

\* _updateBeam(cm): the beam collection afterwards
_updateBeam(cm) ==
    IF ~_isWithinConstructionBounds(snap(cm.x), snap(cm.y)) \/ beams = <<>>
    THEN beams
    ELSE LET b == beams[Len(beams)]
         IN  IF b.nan THEN beams
             ELSE SetLast(beams, [b EXCEPT !.x2 = snap(cm.x), !.y2 = snap(cm.y)])

\* _onMouseMove with the cursor at cm, d away from where it was: drags the
\* selection, or stretches the element being drawn
MouseMove(cm, d) ==
    IF selectedElements # <<>> /\ dragStart
    THEN LET r == _moveSelected(d[1], d[2])
         IN  /\ SetStore(r.store)
             /\ last' = Call("_moveSelected", d[1], d[2], r.res)
             /\ UNCHANGED <<terraceVars, toolVars, selectedElements,
                            copiedElements, cfgVars>>
    ELSE /\ isDrawing /\ currentTool \in {"add-obstacle", "add-beam", "select-area"}
         /\ obstacles' = IF currentTool = "add-obstacle"
                         THEN _updateObstacle(cm) ELSE obstacles
         /\ beams' = IF currentTool = "add-beam" THEN _updateBeam(cm) ELSE beams
         /\ selectionRect' = IF currentTool = "select-area"
                             THEN _updateAreaSelect(cm) ELSE selectionRect
         /\ last' = Call("_onMouseMove", 0, 0, "draw")
         /\ UNCHANGED <<terraceVars, panels, texts, currentTool, isDrawing, dragStart,
                        tempPoints, isAreaAdditive, selectedElements,
                        copiedElements, cfgVars>>

\* o with negative dimensions normalised
NormalizeObstacle(o) ==
    LET ox == IF o.w < 0 THEN o.x + o.w ELSE o.x
        oy == IF o.h < 0 THEN o.y + o.h ELSE o.y
    IN  [o EXCEPT !.x = ox, !.y = oy, !.w = Abs(o.w), !.h = Abs(o.h)]

\* _finishObstacle(): the obstacle collection afterwards
_finishObstacle ==
    IF obstacles = <<>> THEN obstacles
    ELSE LET o == obstacles[Len(obstacles)]
             n == IF o.nan THEN o ELSE NormalizeObstacle(o)
         IN  IF ~n.nan /\ n.w < MinObstacleSize /\ n.h < MinObstacleSize
             THEN Pop(obstacles)
             ELSE SetLast(obstacles, n)

\* _finishBeam(): the beam collection afterwards
_finishBeam ==
    IF beams = <<>> THEN beams
    ELSE LET b == beams[Len(beams)]
             len2 == (b.x2 - b.x1) * (b.x2 - b.x1) + (b.y2 - b.y1) * (b.y2 - b.y1)
         IN  IF ~b.nan /\ len2 < MinBeamLength * MinBeamLength THEN Pop(beams)
             ELSE IF ~BeamFits(b) THEN Pop(beams)
             ELSE beams

\* _onMouseUp: finishes the element being drawn or the area drag and ends the
\* drag of the selection; a TypeError in _finishObstacle or _finishBeam (empty
\* collection) skips the rest
MouseUp ==
    LET finO == isDrawing /\ currentTool = "add-obstacle"
        finB == isDrawing /\ currentTool = "add-beam"
        finA == isDrawing /\ currentTool = "select-area" /\ selectionRect # Null
        threw == (finO /\ obstacles = <<>>) \/ (finB /\ beams = <<>>)
    IN  /\ isDrawing \/ dragStart
        /\ isDrawing' = IF finO \/ finB \/ finA THEN FALSE ELSE isDrawing
        /\ obstacles' = IF finO THEN _finishObstacle ELSE obstacles
        /\ beams' = IF finB THEN _finishBeam ELSE beams
        /\ selectedElements' = IF finA THEN _finishAreaSelect ELSE selectedElements
        /\ selectionRect' = IF finA THEN Null ELSE selectionRect
        /\ isAreaAdditive' = IF finA THEN FALSE ELSE isAreaAdditive
        /\ dragStart' = IF threw THEN dragStart ELSE FALSE
        /\ last' = Call("_onMouseUp", 0, 0,
                        IF threw THEN "threw"
                        ELSE IF finO THEN "_finishObstacle"
                        ELSE IF finB THEN "_finishBeam"
                        ELSE IF finA THEN "_finishAreaSelect" ELSE "ok")
        /\ UNCHANGED <<terraceVars, panels, texts, currentTool, tempPoints,
                       copiedElements, cfgVars>>

\* _onDoubleClick at cm; ans: the answer to the prompt when a text is hit
DoubleClick(cm, ans) ==
    LET textIndex == _getTextIndexAt(cm)
    IN  IF textIndex # 0
        THEN /\ texts' = IF ans.cancelled THEN texts
                         ELSE IF Trim(ans.text) = "" THEN Splice1(texts, textIndex)
                         ELSE [texts EXCEPT ![textIndex].text = Trim(ans.text)]
             /\ last' = Call("_onDoubleClick", ans, 0, "text")
             /\ UNCHANGED <<terraceVars, obstacles, beams, panels, toolVars,
                            selectedElements, copiedElements, cfgVars>>
        ELSE /\ currentTool = "draw-terrace" /\ Len(tempPoints) >= 3
             /\ ans.cancelled
             /\ LET t == TerraceSet(tempPoints)
                IN  /\ terraceVertices' = t.vertices
                    /\ constructionBounds' = t.cb
                    /\ panelBounds' = t.pb
             /\ tempPoints' = <<>>
             /\ last' = Call("_onDoubleClick", 0, 0, "terrace")
             /\ UNCHANGED <<collVars, currentTool, isDrawing, dragStart, areaVars,
                            selectedElements, copiedElements, cfgVars>>

-----------------------------------------------------------------------------
(* Automatic structure *)

AutoBeam(x1, y1, x2, y2, profile) ==
    [x1 |-> x1, y1 |-> y1, x2 |-> x2, y2 |-> y2, profile |-> profile,
     isAutoStructure |-> TRUE, nan |-> FALSE]

\* the parallel beams with the first of them on the top edge
RECURSIVE ParallelBeams_FromEdge(_, _, _, _, _, _, _)
ParallelBeams_FromEdge(i, numBeams, spacing, startX, endX, startY, endY) ==
    LET y == startY + i * spacing
    IN  IF i >= numBeams \/ y >= endY THEN <<>>
        ELSE <<AutoBeam(startX, y, endX, y, "IPN-80")>>
             \o ParallelBeams_FromEdge(i + 1, numBeams, spacing, startX, endX,
                                       startY, endY)

\* the parallel beams i, i + 1, ... of createAutoStructure: at startY + (i + 1) *
\* spacing, until one reaches endY (i counts from 0)
RECURSIVE ParallelBeams(_, _, _, _, _, _, _)
ParallelBeams(i, numBeams, spacing, startX, endX, startY, endY) ==
    LET y == startY + (i + 1) * spacing
    IN  IF i >= numBeams \/ y >= endY THEN <<>>
        ELSE <<AutoBeam(startX, y, endX, y, "IPN-80")>>
             \o ParallelBeams(i + 1, numBeams, spacing, startX, endX, startY, endY)

\* createAutoStructure emptying the beams before it validates
createAutoStructure_ClearFirst(numBeams, spacing, profile, width, height) ==
    LET t == IF getTerraceBounds = Null
             THEN TerraceSet(RectVertices(IF width = 0 THEN DefaultTerraceWidth ELSE width,
                                          IF height = 0 THEN DefaultTerraceHeight ELSE height))
             ELSE [vertices |-> terraceVertices, cb |-> constructionBounds,
                   pb |-> panelBounds]
        terraceBounds == getTerraceBoundsOf(t.vertices)
        cb == IF t.cb = Null
              THEN _calculateConstructionBounds(terraceBounds, ConstructionMargin)
              ELSE t.cb
        pb == IF t.pb = Null THEN _calculatePanelBounds(cb, PanelMargin) ELSE t.pb
        finalWidth == SetMax({MinStructureSide, terraceBounds.width - 2 * StructureMargin})
        finalLength == SetMax({MinStructureSide, terraceBounds.height - 2 * StructureMargin})
        totalBeamLength == numBeams * spacing
        \* centerX - finalWidth / 2, centerY - finalLength / 2
        startX == (terraceBounds.minX + terraceBounds.maxX - finalWidth) \div 2
        startY == (terraceBounds.minY + terraceBounds.maxY - finalLength) \div 2
        endX == startX + finalWidth
        endY == startY + finalLength
        frame == <<AutoBeam(startX, startY, endX, startY, profile),
                   AutoBeam(endX, startY, endX, endY, profile),
                   AutoBeam(endX, endY, startX, endY, profile),
                   AutoBeam(startX, endY, startX, startY, profile)>>
    IN  IF numBeams > 0 /\ totalBeamLength >= finalLength
        THEN [success |-> FALSE, vertices |-> t.vertices, cb |-> cb, pb |-> pb,
              beams |-> <<>>, width |-> finalWidth, length |-> finalLength,
              message |-> [numBeams |-> numBeams, spacing |-> spacing,
                           required |-> totalBeamLength, available |-> finalLength]]
        ELSE [success |-> TRUE, vertices |-> t.vertices, cb |-> cb, pb |-> pb,
              beams |-> frame \o ParallelBeams(0, numBeams, spacing, startX, endX,
                                               startY, endY),
              width |-> finalWidth, length |-> finalLength,
              message |-> [numBeams |-> numBeams, width |-> finalWidth,
                           length |-> finalLength]]

\* createAutoStructure(numBeams, spacing, profile, width, height): the terrace,
\* the bounds and the beams afterwards, and the result it returns (message:
\* the numbers its text reports)
createAutoStructure(numBeams, spacing, profile, width, height) ==
    LET t == IF getTerraceBounds = Null
             THEN TerraceSet(RectVertices(IF width = 0 THEN DefaultTerraceWidth ELSE width,
                                          IF height = 0 THEN DefaultTerraceHeight ELSE height))
             ELSE [vertices |-> terraceVertices, cb |-> constructionBounds,
                   pb |-> panelBounds]
        terraceBounds == getTerraceBoundsOf(t.vertices)
        cb == IF t.cb = Null
              THEN _calculateConstructionBounds(terraceBounds, ConstructionMargin)
              ELSE t.cb
        pb == IF t.pb = Null THEN _calculatePanelBounds(cb, PanelMargin) ELSE t.pb
        finalWidth == SetMax({MinStructureSide, terraceBounds.width - 2 * StructureMargin})
        finalLength == SetMax({MinStructureSide, terraceBounds.height - 2 * StructureMargin})
        totalBeamLength == numBeams * spacing
        \* centerX - finalWidth / 2, centerY - finalLength / 2
        startX == (terraceBounds.minX + terraceBounds.maxX - finalWidth) \div 2
        startY == (terraceBounds.minY + terraceBounds.maxY - finalLength) \div 2
        endX == startX + finalWidth
        endY == startY + finalLength
        frame == <<AutoBeam(startX, startY, endX, startY, profile),
                   AutoBeam(endX, startY, endX, endY, profile),
                   AutoBeam(endX, endY, startX, endY, profile),
                   AutoBeam(startX, endY, startX, startY, profile)>>
    IN  IF numBeams > 0 /\ totalBeamLength >= finalLength
        THEN [success |-> FALSE, vertices |-> t.vertices, cb |-> cb, pb |-> pb,
              beams |-> beams, width |-> finalWidth, length |-> finalLength,
              message |-> [numBeams |-> numBeams, spacing |-> spacing,
                           required |-> totalBeamLength, available |-> finalLength]]
        ELSE [success |-> TRUE, vertices |-> t.vertices, cb |-> cb, pb |-> pb,
              beams |-> frame \o ParallelBeams(0, numBeams, spacing, startX, endX,
                                               startY, endY),
              width |-> finalWidth, length |-> finalLength,
              message |-> [numBeams |-> numBeams, width |-> finalWidth,
                           length |-> finalLength]]

\* the "Crear estructura" button: createAutoStructure with the form's values
CreateAutoStructure(numBeams, spacing, width, height) ==
    LET r == createAutoStructure(numBeams, spacing, "IPN-80", width, height)
    IN  /\ terraceVertices' = r.vertices
        /\ constructionBounds' = r.cb
        /\ panelBounds' = r.pb
        /\ beams' = r.beams
        /\ last' = Call("createAutoStructure", numBeams, spacing,
                        IF r.success THEN "success" ELSE "failure")
        /\ UNCHANGED <<obstacles, panels, texts, toolVars, selectedElements,
                       copiedElements, cfgVars>>

-----------------------------------------------------------------------------
(* Export and import *)

DataFields == {"terraceVertices", "constructionBounds", "panelBounds", "obstacles",
               "beams", "panels", "texts", "panelConfig", "textConfig", "scale"}

\* exportData(): the record, and which of its fields are there
exportData ==
    [has |-> DataFields,
     terraceVertices |-> terraceVertices,
     constructionBounds |-> constructionBounds,
     panelBounds |-> panelBounds,
     obstacles |-> obstacles, beams |-> beams, panels |-> panels, texts |-> texts,
     panelConfig |-> panelConfig, textConfig |-> textConfig, scale |-> scale]

\* data.f read without a default
OrElse_Given(data, f, dflt) == data[f]

\* data.f || dflt for an array or an object f (always truthy when there)
OrElse(data, f, dflt) == IF f \in data.has THEN data[f] ELSE dflt

\* { ...cur, ...given }: the fields of given over those of cur
Spread(cur, given) ==
    [f \in DOMAIN cur \cup DOMAIN given |->
        IF f \in DOMAIN given THEN given[f] ELSE cur[f]]

\* if (data.f) this.f = { ...this.f, ...data.f }
Merged(data, f, cur) == IF f \in data.has THEN Spread(cur, data[f]) ELSE cur

\* an import that reads no panels
importData_NoPanels(data) ==
    [terraceVertices |-> OrElse(data, "terraceVertices", <<>>),
     constructionBounds |-> OrElse(data, "constructionBounds", Null),
     panelBounds |-> OrElse(data, "panelBounds", Null),
     obstacles |-> OrElse(data, "obstacles", <<>>),
     beams |-> OrElse(data, "beams", <<>>),
     panels |-> <<>>,
     texts |-> OrElse(data, "texts", <<>>),
     panelConfig |-> Merged(data, "panelConfig", panelConfig),
     textConfig |-> Merged(data, "textConfig", textConfig),
     scale |-> IF "scale" \in data.has /\ data.scale # 0 THEN data.scale ELSE scale]

\* importData(data): every variable it writes
importData(data) ==
    LET tv == OrElse(data, "terraceVertices", <<>>)
        cb0 == OrElse(data, "constructionBounds", Null)
        pb0 == OrElse(data, "panelBounds", Null)
        recompute == (cb0 = Null \/ pb0 = Null) /\ Len(tv) >= 3
        cb1 == IF recompute
               THEN _calculateConstructionBounds(getTerraceBoundsOf(tv), ConstructionMargin)
               ELSE cb0
        pb1 == IF recompute THEN _calculatePanelBounds(cb1, PanelMargin) ELSE pb0
    IN  [terraceVertices |-> tv, constructionBounds |-> cb1, panelBounds |-> pb1,
         obstacles |-> OrElse(data, "obstacles", <<>>),
         beams |-> OrElse(data, "beams", <<>>),
         panels |-> OrElse(data, "panels", <<>>),
         texts |-> OrElse(data, "texts", <<>>),
         panelConfig |-> Merged(data, "panelConfig", panelConfig),
         textConfig |-> Merged(data, "textConfig", textConfig),
         scale |-> IF "scale" \in data.has /\ data.scale # 0 THEN data.scale ELSE scale]

\* importData of what exportData() has just returned
ImportData ==
    LET r == importData(exportData)
    IN  /\ terraceVertices' = r.terraceVertices
        /\ constructionBounds' = r.constructionBounds
        /\ panelBounds' = r.panelBounds
        /\ obstacles' = r.obstacles
        /\ beams' = r.beams
        /\ panels' = r.panels
        /\ texts' = r.texts
        /\ panelConfig' = r.panelConfig
        /\ textConfig' = r.textConfig
        /\ scale' = r.scale
        /\ last' = Call("importData", 0, 0, "ok")
        /\ UNCHANGED <<toolVars, selectedElements, copiedElements>>

\* the values a saved record carries in the fields it has
SavedTerraces == {RectVertices(DefaultTerraceWidth, DefaultTerraceHeight),
                  <<Pt(0, 0), Pt(100, 0)>>}
SavedBounds == [minX |-> 0, maxX |-> 100, minY |-> 0, maxY |-> 100]
\* the records importData is given: every choice of the fields that are there
\* (a field that is not there is never read); the configurations are saved
\* in part
SavedRecord(h, tv) ==
    [has |-> h, terraceVertices |-> tv,
     constructionBounds |-> SavedBounds, panelBounds |-> SavedBounds,
     obstacles |-> <<[x |-> 10, y |-> 10, w |-> 20, h |-> 20, type |-> "column",
                      nan |-> FALSE]>>,
     beams |-> <<[x1 |-> 0, y1 |-> 0, x2 |-> 100, y2 |-> 0, profile |-> "IPN-80",
                  isAutoStructure |-> FALSE, nan |-> FALSE]>>,
     panels |-> <<[x |-> 0, y |-> 0, w |-> 100, h |-> 200, realHeight |-> 200,
                   inclination |-> 0, power |-> 400, nan |-> FALSE]>>,
     texts |-> <<[x |-> 0, y |-> 0, text |-> "Nota", size |-> 20, nan |-> FALSE]>>,
     panelConfig |-> [width |-> 100], textConfig |-> [size |-> 20],
     scale |-> 2]

ImportRecords ==
    UNION {{SavedRecord(h, tv) :
              tv \in IF "terraceVertices" \in h THEN SavedTerraces
                     ELSE {RectVertices(DefaultTerraceWidth, DefaultTerraceHeight)}} :
           h \in SUBSET DataFields}

\* importData(data) of a saved record
ImportRecord(data) ==
    LET r == importData(data)
    IN  /\ terraceVertices' = r.terraceVertices
        /\ constructionBounds' = r.constructionBounds
        /\ panelBounds' = r.panelBounds
        /\ obstacles' = r.obstacles
        /\ beams' = r.beams
        /\ panels' = r.panels
        /\ texts' = r.texts
        /\ panelConfig' = r.panelConfig
        /\ textConfig' = r.textConfig
        /\ scale' = r.scale
        /\ last' = Call("importData", data, 0, "record")
        /\ UNCHANGED <<toolVars, selectedElements, copiedElements>>

-----------------------------------------------------------------------------
(* 3D viewer: the height field of _buildBeams and _buildPanels *)
(* Depths (z) and terraceCenter are kept doubled, heights in 1/2000 cm, so  *)
(* that a centre at a half centimetre and the tangent stay integers.        *)

Min2(a, b) == IF a < b THEN a ELSE b
Max2(a, b) == IF a > b THEN a ELSE b

\* the tilt angles (degrees) the height field is asked for
TiltDegrees == {0, 5, 10, 20, 40, 45}

\* 1000 * Math.tan(deg * PI / 180), rounded
Tan1000(deg) ==
    CASE deg = 0 -> 0
      [] deg = 5 -> 87
      [] deg = 10 -> 176
      [] deg = 20 -> 364
      [] deg = 40 -> 839
      [] deg = 45 -> 1000

\* _calculateTerraceCenter(vertices), doubled
_calculateTerraceCenter(vertices) ==
    IF Len(vertices) < 3 THEN Pt(0, 0)
    ELSE LET b == BoundsOfVertices(vertices)
         IN  Pt(b.minX + b.maxX, b.minY + b.maxY)

\* y - terraceCenter.y, doubled
DepthOf(y, center) == 2 * y - center.y

\* _getStructureBounds(beams, []): null without beams and when a coordinate
\* is NaN
_getStructureBounds(bs, center) ==
    IF bs = <<>> \/ \E i \in 1..Len(bs) : bs[i].nan THEN Null
    ELSE LET xs == UNION {{2 * bs[i].x1 - center.x, 2 * bs[i].x2 - center.x} : i \in 1..Len(bs)}
             zs == UNION {{DepthOf(bs[i].y1, center), DepthOf(bs[i].y2, center)} : i \in 1..Len(bs)}
         IN  [minX |-> SetMin(xs), maxX |-> SetMax(xs),
              minZ |-> SetMin(zs), maxZ |-> SetMax(zs)]

\* _getInclinationRange(beams, inclination); startBeam and endBeam count from 0
_getInclinationRange(bs, inclination, center) ==
    IF bs = <<>> THEN Null
    ELSE LET totalBeams == Len(bs)
             rawStart == inclination.startBeam
             rawEnd == IF inclination.endBeam = -1 THEN totalBeams - 1
                       ELSE inclination.endBeam
             startIndex == Max2(0, Min2(rawStart, totalBeams - 1))
             endIndex == Max2(0, Min2(rawEnd, totalBeams - 1))
             rangeStart == Min2(startIndex, endIndex)
             rangeEnd == Max2(startIndex, endIndex)
             used == IF inclination.endBeam = -1 THEN rangeStart..rangeEnd
                     ELSE {startIndex, endIndex}
             zs == UNION {{DepthOf(bs[i + 1].y1, center), DepthOf(bs[i + 1].y2, center)} :
                          i \in used}
         IN  IF \E i \in used : bs[i + 1].nan THEN Null
             ELSE [startIndex |-> rangeStart, endIndex |-> rangeEnd,
                   minZ |-> SetMin(zs), maxZ |-> SetMax(zs),
                   invert |-> endIndex < startIndex]

\* what getHeightAtZ of _buildBeams closes over: bounds, rangeInfo, zMin, zMax, zSpan
_buildBeams_range(bs, inclination, center) ==
    LET bounds == _getStructureBounds(bs, center)
        rangeInfo == _getInclinationRange(bs, inclination, center)
        zMin == IF rangeInfo # Null THEN rangeInfo.minZ
                ELSE IF bounds # Null THEN bounds.minZ ELSE 0
        zMax == IF rangeInfo # Null THEN rangeInfo.maxZ
                ELSE IF bounds # Null THEN bounds.maxZ ELSE 0
    IN  [bounds |-> bounds, rangeInfo |-> rangeInfo, zMin |-> zMin, zMax |-> zMax,
         zSpan |-> zMax - zMin]

\* the height along the slope with t left as it comes, below 0 and above 1
_buildBeams_getHeightAtZ_Unclamped(c, height, z, deg) ==
    IF c.bounds = Null \/ c.zSpan = 0 \/ deg = 0 THEN 2000 * height
    ELSE LET rise == c.zSpan * Tan1000(deg)
             t0 == z - c.zMin
             t == IF c.rangeInfo # Null /\ c.rangeInfo.invert THEN c.zSpan - t0 ELSE t0
         IN  2000 * height + (rise * t) \div c.zSpan

\* getHeightAtZ(z, radians) of _buildBeams, the angle in degrees; t is kept
\* multiplied by zSpan
_buildBeams_getHeightAtZ(c, height, z, deg) ==
    IF c.bounds = Null \/ c.zSpan = 0 \/ deg = 0 THEN 2000 * height
    ELSE LET rise == c.zSpan * Tan1000(deg)
             t0 == z - c.zMin
             t1 == IF c.rangeInfo # Null /\ c.rangeInfo.invert THEN c.zSpan - t0 ELSE t0
             t == Max2(0, Min2(c.zSpan, t1))
         IN  2000 * height + (rise * t) \div c.zSpan

\* the same closure in _buildPanels
_buildPanels_range(bs, inclination, center) ==
    LET bounds == _getStructureBounds(bs, center)
        rangeInfo == _getInclinationRange(bs, inclination, center)
        zMin == IF rangeInfo # Null THEN rangeInfo.minZ
                ELSE IF bounds # Null THEN bounds.minZ ELSE 0
        zMax == IF rangeInfo # Null THEN rangeInfo.maxZ
                ELSE IF bounds # Null THEN bounds.maxZ ELSE 0
    IN  [bounds |-> bounds, rangeInfo |-> rangeInfo, zMin |-> zMin, zMax |-> zMax,
         zSpan |-> zMax - zMin]

\* the height along the slope without a look at rangeInfo.invert
_buildPanels_getHeightAtZ_NoInvert(c, height, z, deg) ==
    IF c.bounds = Null \/ c.zSpan = 0 \/ deg = 0 THEN 2000 * height
    ELSE LET rise == c.zSpan * Tan1000(deg)
             t == Max2(0, Min2(c.zSpan, z - c.zMin))
         IN  2000 * height + (rise * t) \div c.zSpan

\* getHeightAtZ(z, radians) of _buildPanels
_buildPanels_getHeightAtZ(c, height, z, deg) ==
    IF c.bounds = Null \/ c.zSpan = 0 \/ deg = 0 THEN 2000 * height
    ELSE LET rise == c.zSpan * Tan1000(deg)
             t0 == z - c.zMin
             t1 == IF c.rangeInfo # Null /\ c.rangeInfo.invert THEN c.zSpan - t0 ELSE t0
             t == Max2(0, Min2(c.zSpan, t1))
         IN  2000 * height + (rise * t) \div c.zSpan

\* pointsEqual(p1, p2) with its tolerance of 1
pointsEqual(x1, y1, x2, y2) == Abs(x1 - x2) <= 1 /\ Abs(y1 - y2) <= 1

\* beamsConnected(b1, b2): an end of b1 on an end of b2; never with NaN
beamsConnected(b1, b2) ==
    /\ ~b1.nan /\ ~b2.nan
    /\ \/ pointsEqual(b1.x1, b1.y1, b2.x1, b2.y1)
       \/ pointsEqual(b1.x1, b1.y1, b2.x2, b2.y2)
       \/ pointsEqual(b1.x2, b1.y2, b2.x1, b2.y1)
       \/ pointsEqual(b1.x2, b1.y2, b2.x2, b2.y2)

\* a frame test that knows the top and bottom sides only
isFrameBeam_Horizontal(b, bs) ==
    /\ \A i \in 1..Len(bs) : ~bs[i].nan
    /\ LET ys == UNION {{bs[i].y1, bs[i].y2} : i \in 1..Len(bs)}
       IN  /\ Abs(b.y1 - b.y2) <= 1
           /\ (Abs(b.y1 - SetMin(ys)) <= 1 \/ Abs(b.y1 - SetMax(ys)) <= 1)

\* isFrameBeam(b) among the beams bs: minX, maxX, minY, maxY are over all of
\* them, and NaN as soon as one has no coordinates
isFrameBeam(b, bs) ==
    /\ \A i \in 1..Len(bs) : ~bs[i].nan
    /\ LET xs == UNION {{bs[i].x1, bs[i].x2} : i \in 1..Len(bs)}
           ys == UNION {{bs[i].y1, bs[i].y2} : i \in 1..Len(bs)}
           isHorizontal == /\ Abs(b.y1 - b.y2) <= 1
                           /\ \/ Abs(b.y1 - SetMin(ys)) <= 1
                              \/ Abs(b.y1 - SetMax(ys)) <= 1
           isVertical == /\ Abs(b.x1 - b.x2) <= 1
                         /\ \/ Abs(b.x1 - SetMin(xs)) <= 1
                            \/ Abs(b.x1 - SetMax(xs)) <= 1
       IN  isHorizontal \/ isVertical

\* rangeIndices: the beams (counted from 0) whose centre depth is within half
\* a centimetre of the range
rangeIndices(bs, rangeInfo, center) ==
    IF rangeInfo = Null THEN {}
    ELSE {i \in 0..(Len(bs) - 1) :
            /\ ~bs[i + 1].nan
            /\ LET centerZ == bs[i + 1].y1 + bs[i + 1].y2 - center.y
               IN  centerZ >= rangeInfo.minZ - 1 /\ centerZ <= rangeInfo.maxZ + 1}

\* _calculateBeamInclinations(beams, inclination): radians is kept in degrees
\* (the angles asked for are multiples of 4)
_calculateBeamInclinations(bs, inclination, center) ==
    LET rangeInfo == _getInclinationRange(bs, inclination, center)
        inRange == rangeIndices(bs, rangeInfo, center)
        baseRadians == inclination.degrees
        inclinationOf(i) ==
            IF i \in inRange
            THEN [radians |-> baseRadians, hasFullInclination |-> TRUE]
            ELSE LET connected == {j \in inRange : beamsConnected(bs[i + 1], bs[j + 1])}
                 IN  IF connected = {}
                     THEN [radians |-> 0, hasFullInclination |-> FALSE]
                     ELSE IF isFrameBeam(bs[i + 1], bs)
                     THEN [radians |-> baseRadians, hasFullInclination |-> TRUE]
                     ELSE [radians |-> baseRadians \div 4, hasFullInclination |-> FALSE]
    IN  [i \in 1..Len(bs) |-> inclinationOf(i - 1)]

\* 1000 * Math.cos(deg * PI / 180), rounded; the cosine is even
Cos1000(deg) ==
    CASE Abs(deg) = 0 -> 1000
      [] Abs(deg) = 5 -> 996
      [] Abs(deg) = 10 -> 985
      [] Abs(deg) = 20 -> 940
      [] Abs(deg) = 40 -> 766

\* 1000 * Math.tan of an angle of either sign; the tangent is odd
TanSigned1000(deg) == IF deg < 0 THEN -Tan1000(-deg) ELSE Tan1000(deg)

\* pointInRect(x, y, rect)
pointInRect(x, y, rect) ==
    x >= rect.minX /\ x <= rect.maxX /\ y >= rect.minY /\ y <= rect.maxY

\* orientation(a, b, c) of segmentsIntersect (whole centimetres: epsilon
\* plays no part)
orientation(a, b, c) ==
    LET val == (b.y - a.y) * (c.x - b.x) - (b.x - a.x) * (c.y - b.y)
    IN  IF val = 0 THEN 0 ELSE IF val > 0 THEN 1 ELSE 2

\* onSegment(a, b, c) of segmentsIntersect
onSegment(a, b, c) ==
    /\ Min2(a.x, b.x) <= c.x /\ c.x <= Max2(a.x, b.x)
    /\ Min2(a.y, b.y) <= c.y /\ c.y <= Max2(a.y, b.y)

\* segmentsIntersect(p1, p2, p3, p4)
segmentsIntersect(p1, p2, p3, p4) ==
    LET o1 == orientation(p1, p2, p3)
        o2 == orientation(p1, p2, p4)
        o3 == orientation(p3, p4, p1)
        o4 == orientation(p3, p4, p2)
    IN  \/ o1 # o2 /\ o3 # o4
        \/ o1 = 0 /\ onSegment(p1, p2, p3)
        \/ o2 = 0 /\ onSegment(p1, p2, p4)
        \/ o3 = 0 /\ onSegment(p3, p4, p1)
        \/ o4 = 0 /\ onSegment(p3, p4, p2)

\* segmentIntersectsRect(b.x1, b.y1, b.x2, b.y2, rect); with NaN every test
\* is false and all four orientations are 2
segmentIntersectsRect(b, rect) ==
    /\ ~b.nan
    /\ \/ pointInRect(b.x1, b.y1, rect)
       \/ pointInRect(b.x2, b.y2, rect)
       \/ LET p1 == Pt(b.x1, b.y1)
              p2 == Pt(b.x2, b.y2)
              tl == Pt(rect.minX, rect.minY)
              tr == Pt(rect.maxX, rect.minY)
              br == Pt(rect.maxX, rect.maxY)
              bl == Pt(rect.minX, rect.maxY)
          IN  \/ segmentsIntersect(p1, p2, tl, tr)
              \/ segmentsIntersect(p1, p2, tr, br)
              \/ segmentsIntersect(p1, p2, br, bl)
              \/ segmentsIntersect(p1, p2, bl, tl)

\* _distancePointToSegment(px, py, x1, y1, x2, y2), squared; t is kept in
\* 1/1024
_distancePointToSegment(px, py, x1, y1, x2, y2) ==
    LET dx == x2 - x1
        dy == y2 - y1
    IN  IF dx = 0 /\ dy = 0
        THEN (px - x1) * (px - x1) + (py - y1) * (py - y1)
        ELSE LET t == (1024 * ((px - x1) * dx + (py - y1) * dy)) \div (dx * dx + dy * dy)
                 clamped == Max2(0, Min2(1024, t))
                 cx == x1 + (clamped * dx) \div 1024
                 cy == y1 + (clamped * dy) \div 1024
             IN  (px - cx) * (px - cx) + (py - cy) * (py - cy)

\* _getNearestBeamIndex(panel, beams), counted from 0: the first of the
\* nearest beams, -1 without one (a distance that is NaN is never smaller);
\* w and h are even
_getNearestBeamIndex(panel, bs) ==
    LET centerX == panel.x + panel.w \div 2
        centerY == panel.y + panel.h \div 2
        seen == {i \in 0..(Len(bs) - 1) : ~bs[i + 1].nan}
        distance(i) == _distancePointToSegment(centerX, centerY, bs[i + 1].x1,
                                               bs[i + 1].y1, bs[i + 1].x2, bs[i + 1].y2)
    IN  IF seen = {} THEN -1
        ELSE SetMin({i \in seen : \A j \in seen : distance(i) <= distance(j)})

\* the support at depth z taken from the lowest of the beams
_buildPanels_supportHeight_Lowest(c, height, z, rads) ==
    SetMin({_buildPanels_getHeightAtZ(c, height, z, rad) : rad \in rads})

\* supportHeightStart and supportHeightEnd of _buildPanels over the beams
\* under the panel, rads their tilts: Math.max of getHeightAtZ(z, beamRad)
_buildPanels_supportHeight(c, height, z, rads) ==
    SetMax({_buildPanels_getHeightAtZ(c, height, z, rad) : rad \in rads})

\* the body of the loop of _buildPanels over the panels, for the panel p:
\* the beams under it (counted from 0), its tilt, the depths of its two
\* edges, the support heights there and the position and rotation of its
\* mesh; c is what getHeightAtZ closes over
_buildPanels_mesh(p, bs, beamInclinations, c, height, center) ==
    LET realH == IF p.realHeight # 0 THEN p.realHeight ELSE p.h
        panelRect == [minX |-> p.x, maxX |-> p.x + p.w,
                      minY |-> p.y, maxY |-> p.y + realH]
        intersecting == {i \in 0..(Len(bs) - 1) :
                           segmentIntersectsRect(bs[i + 1], panelRect)}
        beamRad(i) == beamInclinations[i + 1].radians
        beamIndex == _getNearestBeamIndex(p, bs)
        inclRad ==
            IF intersecting # {}
            THEN SetMax({0} \cup {beamRad(i) : i \in intersecting})
            ELSE IF beamIndex # -1 THEN beamRad(beamIndex) ELSE 0
        signedInclRad == IF c.rangeInfo # Null /\ c.rangeInfo.invert
                         THEN -inclRad ELSE inclRad
        zStart == DepthOf(p.y, center)
        zEnd == zStart + (2 * realH * Cos1000(signedInclRad)) \div 1000
        supportHeight(z) ==
            IF intersecting = {}
            THEN _buildPanels_getHeightAtZ(c, height, z, inclRad)
            ELSE _buildPanels_supportHeight(c, height, z,
                                            {beamRad(i) : i \in intersecting})
        centerZ == zStart + (realH * Cos1000(signedInclRad)) \div 1000
        aRot == -signedInclRad
        requiredCenterY(zEdge, heightEdge) ==
            heightEdge + 2000 - (zEdge - centerZ) * TanSigned1000(aRot)
                + 3 * Cos1000(aRot)
    IN  [intersecting |-> intersecting,
         inclRad |-> inclRad,
         zStart |-> zStart,
         zEnd |-> zEnd,
         supportHeightStart |-> supportHeight(zStart),
         supportHeightEnd |-> supportHeight(zEnd),
         centerZ |-> centerZ,
         centerY |-> Max2(requiredCenterY(zStart, supportHeight(zStart)),
                          requiredCenterY(zEnd, supportHeight(zEnd))),
         rotationX |-> -signedInclRad]

\* _buildPanels(panels, beams, height, inclination): one mesh per panel;
\* beamInclinations and the range are worked out once, before the loop
_buildPanels(ps, bs, height, inclination, center) ==
    LET built == {[k \in 1..Len(ps) |->
                      _buildPanels_mesh(ps[k], bs, beamInclinations, c, height, center)] :
                  beamInclinations \in {_calculateBeamInclinations(bs, inclination, center)},
                  c \in {_buildPanels_range(bs, inclination, center)}}
    IN  CHOOSE meshes \in built : TRUE

\* structConfig of updateScene: height and beamInclination
\* _getStructureBounds(beams, terraceVertices) as _buildCornerPosts calls it:
\* over the ends of the beams, and over the vertices of the terrace when there
\* are no beams
_buildCornerPosts_bounds(bs, vertices, center) ==
    IF bs # <<>> THEN _getStructureBounds(bs, center)
    ELSE IF vertices = <<>> THEN Null
    ELSE LET xs == {2 * vertices[k].x - center.x : k \in 1..Len(vertices)}
             zs == {DepthOf(vertices[k].y, center) : k \in 1..Len(vertices)}
         IN  [minX |-> SetMin(xs), maxX |-> SetMax(xs),
              minZ |-> SetMin(zs), maxZ |-> SetMax(zs)]

\* the height of the post at depth z; t is kept multiplied by zSpan
_buildCornerPosts_postHeight(z, zMin, zSpan, invert, height, degrees) ==
    IF zSpan = 0 THEN 2000 * height
    ELSE LET rise == zSpan * Tan1000(degrees)
             t0 == z - zMin
             t1 == IF invert THEN zSpan - t0 ELSE t0
             t == Max2(0, Min2(zSpan, t1))
         IN  2000 * height + (rise * t) \div zSpan

\* _buildCornerPosts(beams, terraceVertices, height, inclination): the posts
\* added to the scene, one per corner of the bounds
_buildCornerPosts(bs, vertices, height, inclination, center) ==
    LET bounds == _buildCornerPosts_bounds(bs, vertices, center)
        rangeInfo == _getInclinationRange(bs, inclination, center)
    IN  IF bounds = Null THEN <<>>
        ELSE LET zMin == IF rangeInfo # Null THEN rangeInfo.minZ ELSE bounds.minZ
                 zMax == IF rangeInfo # Null THEN rangeInfo.maxZ ELSE bounds.maxZ
                 invert == rangeInfo # Null /\ rangeInfo.invert
                 corners == <<[x |-> bounds.minX, z |-> bounds.minZ],
                              [x |-> bounds.maxX, z |-> bounds.minZ],
                              [x |-> bounds.maxX, z |-> bounds.maxZ],
                              [x |-> bounds.minX, z |-> bounds.maxZ]>>
             IN  [k \in 1..4 |->
                    [x |-> corners[k].x, z |-> corners[k].z,
                     postHeight |-> _buildCornerPosts_postHeight(
                                       corners[k].z, zMin, zMax - zMin, invert, height,
                                       inclination.degrees)]]

StructConfigs ==
    [height : {120},
     beamInclination : [degrees : {0, 20, 40}, startBeam : {0, 1, 4},
                        endBeam : {-1, 0, 2, 9}]]

\* updateScene(data, structConfig) with the editor's exportData()
UpdateScene(structConfig) ==
    LET data == exportData
    IN  /\ terraceCenter' = _calculateTerraceCenter(data.terraceVertices)
        /\ sceneBeams' = data.beams
        /\ scenePanels' = _buildPanels(data.panels, data.beams, structConfig.height,
                                       structConfig.beamInclination,
                                       _calculateTerraceCenter(data.terraceVertices))
        /\ scenePosts' = _buildCornerPosts(data.beams, data.terraceVertices,
                                           structConfig.height,
                                           structConfig.beamInclination,
                                           _calculateTerraceCenter(data.terraceVertices))
        /\ sceneConfig' = [height |-> structConfig.height,
                           inclination |-> structConfig.beamInclination]
        /\ last' = Call("updateScene", 0, 0, "ok")
        /\ UNCHANGED <<terraceVars, collVars, toolVars, selectedElements,
                       copiedElements, cfgVars, saveVars, steps>>

-----------------------------------------------------------------------------
(* Specifications *)

\* one more call or event of the 2D editor, while the run has room for it
Step == steps < MaxSteps /\ steps' = steps + 1 /\ UNCHANGED <<viewVars, saveVars>>

Next ==
    \/ Step /\ ConfirmTerrace
    \/ Step /\ \E s \in RectSizes : SetRectangularTerrace(s[1], s[2])
    \/ Step /\ ClearAll
    \/ Step /\ \E d \in Deltas : MoveSelected(d[1], d[2])
    \/ Step /\ DeleteSelected
    \/ Step /\ CopySelected
    \/ Step /\ \E o \in PasteOffsets : Paste(o[1], o[2])
    \/ Step /\ \E t \in Tools : SetTool(t)
    \/ Step /\ \E cm \in MousePts \cup {FarPt, EdgePt} \cup {TerraceClick(k) : k \in 1..MaxTemp},
                 ctrl \in BOOLEAN, ans \in PromptAnswers : MouseDown(cm, ctrl, ans)
    \/ Step /\ \E cm \in MousePts, d \in Deltas : MouseMove(cm, d)
    \/ Step /\ MouseUp
    \/ Step /\ \E cm \in MousePts, ans \in PromptAnswers : DoubleClick(cm, ans)
    \/ Step /\ \E a \in AutoInputs, sz \in RectSizes :
                 CreateAutoStructure(a[1], a[2], sz[1], sz[2])
    \/ Step /\ ImportData

Spec == Init /\ [][Next]_vars

\* an editor whose terrace is confirmed and is not replaced afterwards
InitFixed ==
    /\ \E sz \in RectSizes :
          LET t == TerraceSet(RectVertices(sz[1], sz[2]))
          IN  /\ terraceVertices = t.vertices
              /\ constructionBounds = _calculateConstructionBounds(
                                         getTerraceBoundsOf(t.vertices), ConstructionMargin)
              /\ panelBounds = _calculatePanelBounds(constructionBounds, PanelMargin)
    /\ obstacles = <<>>
    /\ beams = <<>>
    /\ panels = <<>>
    /\ texts = <<>>
    /\ currentTool = "select"
    /\ isDrawing = FALSE
    /\ dragStart = FALSE
    /\ tempPoints = <<>>
    /\ selectionRect = Null
    /\ isAreaAdditive = FALSE
    /\ selectedElements = <<>>
    /\ copiedElements = <<>>
    /\ panelConfig = [width |-> DefaultPanelWidth, height |-> DefaultPanelHeight,
                      inclination |-> 0, power |-> DefaultPanelPower]
    /\ textConfig = [content |-> "Texto", size |-> DefaultTextSize]
    /\ scale = DefaultScale
    /\ terraceCenter = Pt(0, 0)
    /\ sceneBeams = <<>>
    /\ scenePanels = <<>>
    /\ scenePosts = <<>>
    /\ InitSave
    /\ sceneConfig = Null
    /\ last = Call("setRectangularTerrace", 0, 0, "ok")
    /\ steps = 0

NextFixed ==
    \/ Step /\ \E d \in Deltas : MoveSelected(d[1], d[2])
    \/ Step /\ DeleteSelected
    \/ Step /\ CopySelected
    \/ Step /\ \E o \in PasteOffsets : Paste(o[1], o[2])
    \/ Step /\ \E t \in Tools : SetTool(t)
    \/ Step /\ \E cm \in MousePts \cup {FarPt, EdgePt} \cup {TerraceClick(k) : k \in 1..MaxTemp},
                 ctrl \in BOOLEAN, ans \in PromptAnswers : MouseDown(cm, ctrl, ans)
    \/ Step /\ \E cm \in MousePts, d \in Deltas : MouseMove(cm, d)
    \/ Step /\ MouseUp
    \/ Step /\ UNCHANGED terraceVars
            /\ \E cm \in MousePts, ans \in PromptAnswers : DoubleClick(cm, ans)
    \/ Step /\ \E a \in AutoInputs, sz \in RectSizes :
                 CreateAutoStructure(a[1], a[2], sz[1], sz[2])

SpecFixed == InitFixed /\ [][NextFixed]_vars

\* the beams of createAutoStructure(n, sp) on the default terrace
Structure3D(n, sp) ==
    <<AutoBeam(5, 5, 580, 5, "IPN-80"), AutoBeam(580, 5, 580, 383, "IPN-80"),
      AutoBeam(580, 383, 5, 383, "IPN-80"), AutoBeam(5, 383, 5, 5, "IPN-80")>>
    \o ParallelBeams(0, n, sp, 5, 580, 5, 383)

ManualBeam(x1, y1, x2, y2) ==
    [x1 |-> x1, y1 |-> y1, x2 |-> x2, y2 |-> y2, profile |-> "IPN-80",
     isAutoStructure |-> FALSE, nan |-> FALSE]

\* a panel of the default size placed at (x, y), flat
PlacedPanel(x, y) ==
    [x |-> x, y |-> y, w |-> DefaultPanelWidth, h |-> DefaultPanelHeight,
     realHeight |-> DefaultPanelHeight, inclination |-> 0,
     power |-> DefaultPanelPower, nan |-> FALSE]

\* a panel of the default size placed at (x, y) with panelConfig.inclination
\* at 60 degrees: its projected height is half its height
TiltedPanel(x, y) ==
    [x |-> x, y |-> y, w |-> DefaultPanelWidth, h |-> DefaultPanelHeight \div 2,
     realHeight |-> DefaultPanelHeight, inclination |-> 60,
     power |-> DefaultPanelPower, nan |-> FALSE]

\* the drawings (terrace, beams, panels) the 3D viewer is shown. The one before
\* the last has a beam along the top, a frame beam down the right side, a
\* diagonal from the top left corner and a short beam at the bottom, the last
\* panel over the right and the bottom beam; the last
\* has panels at 60 degrees, a beam above them, a beam under the far half of
\* the first and a beam beyond the second
SceneData ==
    {[t |-> <<>>, b |-> <<>>, p |-> <<>>],
     [t |-> <<>>, b |-> <<ManualBeam(0, 0, 300, 210)>>, p |-> <<>>],
     [t |-> <<>>, b |-> <<ManualBeam(0, 0, 300, 0), ManualBeam(0, 210, 300, 210)>>,
      p |-> <<>>],
     [t |-> <<>>, b |-> <<NaNBeam, ManualBeam(0, 0, 300, 210)>>, p |-> <<>>],
     [t |-> RectVertices(DefaultTerraceWidth, DefaultTerraceHeight), b |-> <<>>,
      p |-> <<PlacedPanel(100, 100)>>],
     [t |-> RectVertices(DefaultTerraceWidth, DefaultTerraceHeight),
      b |-> Structure3D(1, 210), p |-> <<PlacedPanel(100, 100)>>],
     [t |-> RectVertices(DefaultTerraceWidth, DefaultTerraceHeight),
      b |-> Structure3D(2, 30), p |-> <<PlacedPanel(10, 20), PlacedPanel(300, 100)>>],
     [t |-> RectVertices(DefaultTerraceWidth, DefaultTerraceHeight),
      b |-> <<ManualBeam(0, 0, 300, 210), ManualBeam(300, 210, 300, 210)>>,
      p |-> <<PlacedPanel(200, 150), PlacedPanel(400, -40)>>],
     [t |-> RectVertices(DefaultTerraceWidth, DefaultTerraceHeight),
      b |-> <<ManualBeam(0, 0, 300, 0), ManualBeam(300, 0, 300, 300),
              ManualBeam(0, 0, 150, 100), ManualBeam(200, 300, 300, 300)>>,
      p |-> <<PlacedPanel(100, -20), PlacedPanel(400, 0), PlacedPanel(0, 130),
              PlacedPanel(200, 100)>>],
     [t |-> RectVertices(DefaultTerraceWidth, DefaultTerraceHeight),
      b |-> <<ManualBeam(0, 80, 540, 80), ManualBeam(0, 250, 300, 250),
              ManualBeam(380, 338, 540, 338)>>,
      p |-> <<TiltedPanel(100, 100), TiltedPanel(400, 100)>>]}

\* an editor holding one of the drawings, and a viewer that has shown nothing
Init3D ==
    /\ \E data \in SceneData :
          /\ terraceVertices = data.t
          /\ constructionBounds =
                IF Len(data.t) < 3 THEN Null
                ELSE _calculateConstructionBounds(getTerraceBoundsOf(data.t),
                                                  ConstructionMargin)
          /\ panelBounds = IF constructionBounds = Null THEN Null
                           ELSE _calculatePanelBounds(constructionBounds, PanelMargin)
          /\ beams = data.b
          /\ panels = data.p
    /\ obstacles = <<>>
    /\ texts = <<>>
    /\ currentTool = "select"
    /\ isDrawing = FALSE
    /\ dragStart = FALSE
    /\ tempPoints = <<>>
    /\ selectionRect = Null
    /\ isAreaAdditive = FALSE
    /\ selectedElements = <<>>
    /\ copiedElements = <<>>
    /\ panelConfig = [width |-> DefaultPanelWidth, height |-> DefaultPanelHeight,
                      inclination |-> 0, power |-> DefaultPanelPower]
    /\ textConfig = [content |-> "Texto", size |-> DefaultTextSize]
    /\ scale = DefaultScale
    /\ terraceCenter = Pt(0, 0)
    /\ sceneBeams = <<>>
    /\ scenePanels = <<>>
    /\ scenePosts = <<>>
    /\ InitSave
    /\ sceneConfig = Null
    /\ last = Call("new", 0, 0, "ok")
    /\ steps = 0

Next3D == \E structConfig \in StructConfigs : UpdateScene(structConfig)

Spec3D == Init3D /\ [][Next3D]_vars

\* a drawing on the default terrace for the area drags between AreaPts: a beam
\* inside the rectangles from (11,11), one across them, one along their top
\* edge and one far away; a panel, an obstacle and a text
InitArea ==
    /\ terraceVertices = RectVertices(DefaultTerraceWidth, DefaultTerraceHeight)
    /\ constructionBounds = _calculateConstructionBounds(
                               getTerraceBoundsOf(terraceVertices), ConstructionMargin)
    /\ panelBounds = _calculatePanelBounds(constructionBounds, PanelMargin)
    /\ obstacles = <<[x |-> 90, y |-> 90, w |-> 20, h |-> 20, type |-> "column",
                      nan |-> FALSE]>>
    /\ beams = <<ManualBeam(20, 20, 80, 20), ManualBeam(0, 50, 200, 50),
                 ManualBeam(30, 11, 60, 11), ManualBeam(300, 300, 400, 300)>>
    /\ panels = <<[x |-> 50, y |-> 50, w |-> DefaultPanelWidth,
                   h |-> DefaultPanelHeight, realHeight |-> DefaultPanelHeight,
                   inclination |-> 0, power |-> DefaultPanelPower, nan |-> FALSE],
                  [x |-> 400, y |-> 0, w |-> DefaultPanelWidth,
                   h |-> DefaultPanelHeight, realHeight |-> DefaultPanelHeight,
                   inclination |-> 0, power |-> DefaultPanelPower, nan |-> FALSE]>>
    /\ texts = <<[x |-> 120, y |-> 80, text |-> "Nota", size |-> DefaultTextSize,
                  nan |-> FALSE]>>
    /\ currentTool = "select-area"
    /\ isDrawing = FALSE
    /\ dragStart = FALSE
    /\ tempPoints = <<>>
    /\ selectionRect = Null
    /\ isAreaAdditive = FALSE
    /\ selectedElements = <<>>
    /\ copiedElements = <<>>
    /\ panelConfig = [width |-> DefaultPanelWidth, height |-> DefaultPanelHeight,
                      inclination |-> 0, power |-> DefaultPanelPower]
    /\ textConfig = [content |-> "Texto", size |-> DefaultTextSize]
    /\ scale = DefaultScale
    /\ terraceCenter = Pt(0, 0)
    /\ sceneBeams = <<>>
    /\ scenePanels = <<>>
    /\ scenePosts = <<>>
    /\ InitSave
    /\ sceneConfig = Null
    /\ last = Call("setTool", 0, 0, "ok")
    /\ steps = 0

NextArea ==
    \/ Step /\ \E cm \in AreaPts, ctrl \in BOOLEAN, ans \in PromptAnswers :
                 MouseDown(cm, ctrl, ans)
    \/ Step /\ \E cm \in AreaPts, d \in Deltas : MouseMove(cm, d)
    \/ Step /\ MouseUp

SpecArea == InitArea /\ [][NextArea]_vars

\* an editor holding one of the drawings is given saved records to import
NextImport ==
    \E data \in ImportRecords :
        /\ steps < MaxImports /\ steps' = steps + 1 /\ UNCHANGED <<viewVars, saveVars>>
        /\ ImportRecord(data)

SpecImport == Init3D /\ [][NextImport]_vars

\* an editor with the select tool on a drawing whose elements overlap: two
\* texts, two panels, two obstacles and two beams, all covering (105, 98)
InitSelect ==
    /\ terraceVertices = RectVertices(DefaultTerraceWidth, DefaultTerraceHeight)
    /\ constructionBounds = _calculateConstructionBounds(
                               getTerraceBoundsOf(terraceVertices), ConstructionMargin)
    /\ panelBounds = _calculatePanelBounds(constructionBounds, PanelMargin)
    /\ obstacles = <<[x |-> 80, y |-> 70, w |-> 300, h |-> 300, type |-> "column",
                      nan |-> FALSE],
                     [x |-> 85, y |-> 75, w |-> 300, h |-> 300, type |-> "column",
                      nan |-> FALSE]>>
    /\ beams = <<ManualBeam(0, 98, 500, 98), ManualBeam(0, 100, 500, 100)>>
    /\ panels = <<PlacedPanel(90, 80), PlacedPanel(100, 90)>>
    /\ texts = <<[x |-> 100, y |-> 100, text |-> "Nota", size |-> DefaultTextSize,
                  nan |-> FALSE],
                 [x |-> 104, y |-> 100, text |-> "Texto", size |-> DefaultTextSize,
                  nan |-> FALSE]>>
    /\ currentTool = "select"
    /\ isDrawing = FALSE
    /\ dragStart = FALSE
    /\ tempPoints = <<>>
    /\ selectionRect = Null
    /\ isAreaAdditive = FALSE
    /\ selectedElements = <<>>
    /\ copiedElements = <<>>
    /\ panelConfig = [width |-> DefaultPanelWidth, height |-> DefaultPanelHeight,
                      inclination |-> 0, power |-> DefaultPanelPower]
    /\ textConfig = [content |-> "Texto", size |-> DefaultTextSize]
    /\ scale = DefaultScale
    /\ terraceCenter = Pt(0, 0)
    /\ sceneBeams = <<>>
    /\ scenePanels = <<>>
    /\ scenePosts = <<>>
    /\ InitSave
    /\ sceneConfig = Null
    /\ last = Call("setTool", 0, 0, "ok")
    /\ steps = 0

NextSelect ==
    \/ Step /\ \E cm \in SelectPts, ctrl \in BOOLEAN, ans \in PromptAnswers :
                 MouseDown(cm, ctrl, ans)
    \/ Step /\ MouseUp

SpecSelect == InitSelect /\ [][NextSelect]_vars

-----------------------------------------------------------------------------
(* Properties *)

\* the rectangle r lies inside the bounds b, edges included
RectInside(r, b) ==
    /\ ~r.nan
    /\ b.minX <= r.x /\ b.minY <= r.y
    /\ r.x + r.w <= b.maxX /\ r.y + r.h <= b.maxY

PointInside(x, y, b) == b.minX <= x /\ x <= b.maxX /\ b.minY <= y /\ y <= b.maxY

\* both endpoints of the beam bm lie inside the bounds b
BeamInside(bm, b) ==
    ~bm.nan /\ PointInside(bm.x1, bm.y1, b) /\ PointInside(bm.x2, bm.y2, b)

\* the selection entry e refers to an element that is there
Refers(e) == e.index \in 1..Len(Coll(e.type))

\* the elements the selection refers to
Selected == {e \in {selectedElements[k] : k \in 1..Len(selectedElements)} : Refers(e)}

\* a selected panel or beam would leave its bounds when moved by (dx, dy)
MoveWouldLeave(dx, dy) ==
    \E e \in Selected :
        \/ /\ e.type = "panel" /\ panelBounds # Null
           /\ ~RectInside(Shift("panel", panels[e.index], dx, dy), panelBounds)
        \/ /\ e.type = "beam" /\ constructionBounds # Null
           /\ ~BeamInside(Shift("beam", beams[e.index], dx, dy), constructionBounds)

\* C1. All-or-nothing move: when a selected panel or beam would leave its
\* bounds at (dx, dy), _moveSelected(dx, dy) leaves every element where it
\* was; when none would, every selected element is shifted by exactly
\* (dx, dy) and every other element is unchanged.
C1_MoveAllOrNothing ==
    [][last'.op = "_moveSelected" =>
         LET dx == last'.a
             dy == last'.b
         IN  IF MoveWouldLeave(dx, dy) THEN Store' = Store
             ELSE \A kind \in Kinds :
                    /\ Len(Coll(kind)') = Len(Coll(kind))
                    /\ \A i \in 1..Len(Coll(kind)) :
                          Coll(kind)'[i] = IF Sel(kind, i) \in Selected
                                           THEN Shift(kind, Coll(kind)[i], dx, dy)
                                           ELSE Coll(kind)[i]]_vars

\* the bounds b grown by margin on every side
Grown(b, margin) ==
    [minX |-> b.minX - margin, maxX |-> b.maxX + margin,
     minY |-> b.minY - margin, maxY |-> b.maxY + margin]

\* the bounds inner lie inside the bounds outer
Nested(inner, outer) ==
    /\ outer.minX <= inner.minX /\ inner.maxX <= outer.maxX
    /\ outer.minY <= inner.minY /\ inner.maxY <= outer.maxY

\* for a terrace vs of at least 3 vertices, cb is its bounding box grown by 10
\* and pb is cb grown by 40, each inside the next
TerraceNesting(vs, cb, pb) ==
    Len(vs) >= 3 =>
        LET box == BoundsOfVertices(vs)
            bb == [minX |-> box.minX, maxX |-> box.maxX,
                   minY |-> box.minY, maxY |-> box.maxY]
        IN  /\ cb = Grown(bb, 10)
            /\ pb = Grown(cb, 40)
            /\ Nested(bb, cb)
            /\ Nested(cb, pb)

\* C2. Bounds nesting: whenever the terrace has at least 3 vertices,
\* constructionBounds is its bounding box grown by 10 on every side and
\* panelBounds is constructionBounds grown by 40 on every side, so the
\* bounding box lies inside constructionBounds, which lies inside panelBounds.
C2_BoundsNesting == TerraceNesting(terraceVertices, constructionBounds, panelBounds)

\* a terrace has just been confirmed from clicked vertices, and has its bounds
C2_Confirmed ==
    /\ last.op = "confirmTerrace"
    /\ Len(terraceVertices) >= 3
    /\ constructionBounds # Null /\ panelBounds # Null

\* C3. Auto-structure feasibility: with N beams at spacing S, when N * S is
\* less than the depth of the structure, createAutoStructure succeeds and
\* leaves exactly 4 + N' beams, N' counting the positions start + (i + 1) * S
\* (0 <= i < N) strictly inside the depth range; when N * S is not less, it
\* fails and changes neither the beams, the terrace, the bounds, the panels,
\* the obstacles nor the texts.
C3_AutoStructureFeasibility ==
    [][last'.op = "createAutoStructure" =>
         LET N == last'.a
             S == last'.b
             box == BoundsOfVertices(terraceVertices')
             depth == Max2(MinStructureSide, box.height - 2 * StructureMargin)
             inside == {i \in 0..(N - 1) : 0 < (i + 1) * S /\ (i + 1) * S < depth}
         IN  IF N * S < depth
             THEN last'.res = "success" /\ Len(beams') = 4 + Cardinality(inside)
             ELSE /\ last'.res = "failure"
                  /\ UNCHANGED <<beams, terraceVertices, constructionBounds,
                                 panelBounds, panels, obstacles, texts>>]_vars

\* every stored beam whose drawing has finished has both endpoints inside
\* constructionBounds
BeamsContained ==
    \A i \in 1..Len(beams) :
        \/ isDrawing /\ currentTool = "add-beam" /\ i = Len(beams)
        \/ BeamInside(beams[i], constructionBounds)

\* C4. Beam containment: on a confirmed terrace that is not replaced, beam
\* drawing (start, update, finish), _moveSelected, paste, deleteSelected and
\* createAutoStructure each keep every stored beam, once its drawing has
\* finished, with both endpoints inside constructionBounds.
C4_BeamContainment ==
    [][(/\ Len(terraceVertices) >= 3 /\ constructionBounds # Null
        /\ terraceVertices' = terraceVertices
        /\ BeamsContained
        /\ last'.op \in {"_startBeam", "_onMouseMove", "_onMouseUp", "_moveSelected",
                         "paste", "deleteSelected", "createAutoStructure"}) =>
          BeamsContained']_vars

\* a placement, a move or a paste that would put a panel outside panelBounds
PanelWouldLeave ==
    \/ /\ last'.op = "_placePanel"
       /\ ~RectInside([x |-> last'.a, y |-> last'.b, w |-> panelConfig.width,
                       h |-> panelConfig.height, nan |-> FALSE], panelBounds)
    \/ /\ last'.op = "_moveSelected"
       /\ \E e \in Selected :
             /\ e.type = "panel"
             /\ ~RectInside(Shift("panel", panels[e.index], last'.a, last'.b),
                            panelBounds)
    \/ /\ last'.op = "paste"
       /\ \E k \in 1..Len(copiedElements) :
             /\ copiedElements[k].type = "panel"
             /\ ~RectInside(Shift("panel", copiedElements[k].data, last'.a, last'.b),
                            panelBounds)

\* C5. Panel containment: on a confirmed terrace that is not replaced, every
\* stored panel rectangle lies inside panelBounds (minX <= x, minY <= y,
\* x + w <= maxX, y + h <= maxY), and a placement, move or paste that would
\* put a panel outside leaves the panel collection as it was.
C5_PanelContainment ==
    [][/\ \A i \in 1..Len(panels') : RectInside(panels'[i], panelBounds')
       /\ PanelWouldLeave => panels' = panels]_vars

\* a paste of a panel that would leave panelBounds has just been refused
C5_PasteRefused ==
    /\ last.op = "paste" /\ last.res = "rejected"
    /\ panels # <<>>
    /\ \E k \in 1..Len(copiedElements) :
          /\ copiedElements[k].type = "panel"
          /\ ~RectInside(Shift("panel", copiedElements[k].data, last.a, last.b),
                         panelBounds)

\* C6. Round trip: importData(exportData()) leaves terraceVertices, obstacles,
\* beams, panels, texts, panelConfig, textConfig and scale as they were, and
\* the bounds afterwards satisfy the nesting for the terrace.
C6_RoundTrip ==
    [][last'.op = "importData" =>
         /\ terraceVertices' = terraceVertices
         /\ obstacles' = obstacles
         /\ beams' = beams
         /\ panels' = panels
         /\ texts' = texts
         /\ panelConfig' = panelConfig
         /\ textConfig' = textConfig
         /\ scale' = scale
         /\ TerraceNesting(terraceVertices', constructionBounds', panelBounds')]_vars

\* an editor with a terrace, beams and a panel has just imported its own export
C6_Imported ==
    /\ last.op = "importData"
    /\ Len(terraceVertices) >= 3
    /\ beams # <<>> /\ panels # <<>>

\* the clipboard entry item fails the validation of paste at offset (ox, oy)
PasteFails(item, ox, oy) ==
    \/ /\ item.type = "panel" /\ panelBounds # Null
       /\ ~RectInside(Shift("panel", item.data, ox, oy), panelBounds)
    \/ /\ item.type = "beam" /\ constructionBounds # Null
       /\ ~BeamInside(Shift("beam", item.data, ox, oy), constructionBounds)

\* the clipboard entries of one kind, in order
ClipOf(kind) == SelectSeq(copiedElements, LAMBDA item : item.type = kind)

\* C7. Paste: when a clipboard panel would lie outside panelBounds or a
\* clipboard beam outside constructionBounds at the offset position, paste
\* changes no collection and not the selection; otherwise it appends one new
\* element per clipboard entry to its collection, at the copied coordinates
\* plus the offset, leaves the existing elements unchanged, and the selection
\* becomes the set of references to the appended elements.
C7_Paste ==
    [][last'.op = "paste" =>
         LET ox == last'.a
             oy == last'.b
         IN  IF \E k \in 1..Len(copiedElements) : PasteFails(copiedElements[k], ox, oy)
             THEN Store' = Store /\ selectedElements' = selectedElements
             ELSE /\ \A kind \in Kinds :
                        LET clip == ClipOf(kind)
                        IN  Coll(kind)' = Coll(kind) \o
                               [k \in 1..Len(clip) |-> Shift(kind, clip[k].data, ox, oy)]
                  /\ Len(selectedElements') = Len(copiedElements)
                  /\ {selectedElements'[k] : k \in 1..Len(selectedElements')} =
                        UNION {{Sel(kind, i) :
                                  i \in (Len(Coll(kind)) + 1)..Len(Coll(kind)')} :
                               kind \in Kinds}]_vars

\* a paste has just been refused for a clipboard of which one entry fails the
\* validation and another passes it
C7_MixedRefused ==
    /\ last.op = "paste" /\ last.res = "rejected"
    /\ \E j, k \in 1..Len(copiedElements) :
          /\ PasteFails(copiedElements[j], last.a, last.b)
          /\ ~PasteFails(copiedElements[k], last.a, last.b)

\* seq without the elements at the indices in removed, from index i on
RECURSIVE Kept(_, _, _)
Kept(seq, removed, i) ==
    IF i > Len(seq) THEN <<>>
    ELSE (IF i \in removed THEN <<>> ELSE <<seq[i]>>) \o Kept(seq, removed, i + 1)

\* the entries of the selection are distinct and each refers to an element
SelectionValid ==
    /\ \A k \in 1..Len(selectedElements) : Refers(selectedElements[k])
    /\ Cardinality({selectedElements[k] : k \in 1..Len(selectedElements)})
          = Len(selectedElements)

\* C8. deleteSelected removes exactly the selected elements: for a selection
\* of distinct valid entries of any kinds, each collection afterwards holds
\* its unselected elements and no others, in their previous order.
C8_DeleteSelected ==
    [][(last'.op = "deleteSelected" /\ SelectionValid) =>
         \A kind \in Kinds :
            Coll(kind)' = Kept(Coll(kind),
                               {e.index : e \in {x \in Selected : x.type = kind}}, 1)]_vars

\* two elements of one kind have just been deleted from a valid selection,
\* and an element of that kind is left
C8_Deleted ==
    /\ last.op = "deleteSelected" /\ last.res = "ok"
    /\ \E j, k \in 1..Len(selectedElements) :
          /\ j < k
          /\ selectedElements[j].type = selectedElements[k].type
          /\ Coll(selectedElements[j].type) # <<>>

\* depths (doubled) at which the height field is looked at: the ends of the
\* range c, its middle, and depths next to and far from the ends
Probes(c) ==
    {c.zMin - 100, c.zMin - 1, c.zMin, c.zMin + 1, (c.zMin + c.zMax) \div 2,
     c.zMax - 1, c.zMax, c.zMax + 1, c.zMax + 100}

\* the range getHeightAtZ of _buildBeams works on for the scene shown
SceneRange == _buildBeams_range(sceneBeams, sceneConfig.inclination, terraceCenter)

SceneInverted == SceneRange.rangeInfo # Null /\ SceneRange.rangeInfo.invert

\* getHeightAtZ of _buildBeams for the scene shown
SceneHeight(z, deg) == _buildBeams_getHeightAtZ(SceneRange, sceneConfig.height, z, deg)

\* C9. Inclination monotonicity: for a tilt in [0, 90) degrees the height is
\* non-decreasing in depth over the resolved range when the profile is not
\* inverted and non-increasing when it is; outside the range it is constant;
\* it is the base height when the range is degenerate or the tilt is zero.
C9_InclinationMonotone ==
    sceneConfig # Null =>
        \A deg \in TiltDegrees :
            /\ \A z1, z2 \in Probes(SceneRange) :
                  (SceneRange.zMin <= z1 /\ z1 <= z2 /\ z2 <= SceneRange.zMax) =>
                      IF SceneInverted
                      THEN SceneHeight(z1, deg) >= SceneHeight(z2, deg)
                      ELSE SceneHeight(z1, deg) <= SceneHeight(z2, deg)
            /\ \A z \in Probes(SceneRange) :
                  /\ z < SceneRange.zMin =>
                        SceneHeight(z, deg) = SceneHeight(SceneRange.zMin, deg)
                  /\ z > SceneRange.zMax =>
                        SceneHeight(z, deg) = SceneHeight(SceneRange.zMax, deg)
            /\ (SceneRange.zSpan = 0 \/ deg = 0) =>
                  \A z \in Probes(SceneRange) :
                      SceneHeight(z, deg) = 2000 * sceneConfig.height

\* a scene with an inverted range that is not degenerate, tilted by 20
\* degrees: the height falls from the near end of the range to the far end
C9_InvertedSlope ==
    /\ sceneConfig # Null
    /\ sceneConfig.inclination.degrees = 20
    /\ SceneRange.zSpan > 0
    /\ SceneInverted
    /\ SceneHeight(SceneRange.zMin, 20) > SceneHeight(SceneRange.zMax, 20)

\* the range getHeightAtZ of _buildPanels works on for the scene shown
PanelSceneRange == _buildPanels_range(sceneBeams, sceneConfig.inclination, terraceCenter)

\* C10. Shared height field: for the same beams, base height and inclination
\* request, getHeightAtZ of _buildBeams and getHeightAtZ of _buildPanels give
\* the same height at every depth and tilt, over the same depth range and
\* with the same invert flag.
C10_SharedHeightField ==
    sceneConfig # Null =>
        /\ SceneRange.zMin = PanelSceneRange.zMin
        /\ SceneRange.zMax = PanelSceneRange.zMax
        /\ SceneInverted = (/\ PanelSceneRange.rangeInfo # Null
                            /\ PanelSceneRange.rangeInfo.invert)
        /\ \A deg \in TiltDegrees, z \in Probes(SceneRange) :
              _buildBeams_getHeightAtZ(SceneRange, sceneConfig.height, z, deg)
                 = _buildPanels_getHeightAtZ(PanelSceneRange, sceneConfig.height, z, deg)

\* a scene tilted by 40 degrees over a range that is not degenerate and not
\* inverted: the panel supports rise with the depth
C10_RisingSlope ==
    /\ sceneConfig # Null
    /\ sceneConfig.inclination.degrees = 40
    /\ PanelSceneRange.zSpan > 0
    /\ PanelSceneRange.bounds # Null
    /\ ~SceneInverted
    /\ _buildPanels_getHeightAtZ(PanelSceneRange, sceneConfig.height,
                                 PanelSceneRange.zMax, 40)
          > 2000 * sceneConfig.height

\* the terrace is the 585 x 388 rectangle with the bounds of the scenario, and
\* new panels are 114 x 228 at 0 degrees
ScenarioTerrace ==
    /\ terraceVertices = RectVertices(585, 388)
    /\ constructionBounds = [minX |-> -10, maxX |-> 595, minY |-> -10, maxY |-> 398]
    /\ panelBounds = [minX |-> -50, maxX |-> 635, minY |-> -50, maxY |-> 438]
    /\ panelConfig.width = 114 /\ panelConfig.height = 228
    /\ panelConfig.inclination = 0

\* C11. Concrete bounds scenario: after setRectangularTerrace(585, 388)
\* constructionBounds is (-10,-10)-(595,398) and panelBounds is
\* (-50,-50)-(635,438); with 114 x 228 panels at 0 degrees, _placePanel at
\* (0,0) appends one panel there and _placePanel at (610,0) appends nothing,
\* its right edge 724 being beyond 635.
C11_BoundsScenario ==
    [][/\ (last'.op = "setRectangularTerrace" /\ last'.a = 585 /\ last'.b = 388) =>
             /\ constructionBounds' =
                   [minX |-> -10, maxX |-> 595, minY |-> -10, maxY |-> 398]
             /\ panelBounds' =
                   [minX |-> -50, maxX |-> 635, minY |-> -50, maxY |-> 438]
       /\ (ScenarioTerrace /\ last'.op = "_placePanel" /\ last'.b = 0) =>
             /\ last'.a = 0 =>
                   /\ Len(panels') = Len(panels) + 1
                   /\ SubSeq(panels', 1, Len(panels)) = panels
                   /\ LET p == panels'[Len(panels')]
                      IN  p.x = 0 /\ p.y = 0 /\ p.w = 114 /\ p.h = 228
             /\ last'.a = 610 =>
                   /\ panels' = panels
                   /\ last'.a + panelConfig.width = 724
                   /\ 724 > panelBounds.maxX]_vars

\* on the 585 x 388 terrace a panel has been placed at (0,0) and the
\* placement at (610,0) has just been refused
C11_EdgeRefused ==
    /\ ScenarioTerrace
    /\ last.op = "_placePanel" /\ last.a = 610 /\ last.b = 0
    /\ last.res = "rejected"
    /\ \E i \in 1..Len(panels) : panels[i].x = 0 /\ panels[i].y = 0

\* C12. Concrete auto-structure scenario: on a 585 x 388 terrace,
\* createAutoStructure(5, 100, "IPN-80") returns success = false with
\* structure {width: 575, length: 378}, its message reports the required
\* length 500 and the available length 378, and the beams are exactly what
\* they were before the call.
C12_AutoStructureScenario ==
    [][(/\ last'.op = "createAutoStructure" /\ last'.a = 5 /\ last'.b = 100
        /\ terraceVertices' = RectVertices(585, 388)) =>
          LET r == createAutoStructure(5, 100, "IPN-80", 585, 388)
          IN  /\ ~r.success /\ last'.res = "failure"
              /\ r.width = 575 /\ r.length = 378
              /\ r.message.required = 500 /\ r.message.available = 378
              /\ beams' = beams]_vars

\* createAutoStructure(5, 100) has just been refused on the 585 x 388 terrace
\* that holds a structure
C12_Rejected ==
    /\ last.op = "createAutoStructure" /\ last.a = 5 /\ last.b = 100
    /\ last.res = "failure"
    /\ terraceVertices = RectVertices(585, 388)
    /\ beams # <<>>

\* the answer ans of the input surface is a cancellation, or a text that is
\* empty once trimmed
NoInput(ans) == ans.cancelled \/ Trim(ans.text) = ""

\* C13. Text input no-op: when the input surface answers with a cancellation
\* or with an empty or whitespace-only text, the text collection is left
\* unchanged, both when a new annotation is being placed (_placeText) and
\* when an existing annotation is being edited by double-click
\* (_onDoubleClick).
C13_TextInputNoOp ==
    [][(/\ \/ last'.op = "_placeText"
            \/ (last'.op = "_onDoubleClick" /\ last'.res = "text")
        /\ NoInput(last'.a)) =>
          texts' = texts]_vars

\* the variables importData writes, after the step, by the name of their field
Imported ==
    [terraceVertices |-> terraceVertices', obstacles |-> obstacles',
     beams |-> beams', panels |-> panels', texts |-> texts']

\* every field of the configuration cur that given does not name is in next
\* with the value it has in cur
KeepsUnnamed(cur, given, next) ==
    \A f \in DOMAIN cur : f \notin DOMAIN given => (f \in DOMAIN next /\ next[f] = cur[f])

\* C14. Import tolerance: importData of a record whose terrace has at least
\* 3 vertices and in which constructionBounds or panelBounds is absent
\* recomputes both bounds from the terrace (margins 10 and 40); every absent
\* collection (terraceVertices, obstacles, beams, panels, texts) becomes
\* empty and every collection that is there is taken; the fields of
\* panelConfig and textConfig that the record does not give keep their
\* current values; the import completes whatever fields are missing.
C14_ImportTolerance ==
    [][(last'.op = "importData" /\ last'.res = "record") =>
         LET data == last'.a
         IN  /\ \A f \in DOMAIN Imported :
                    Imported[f] = IF f \in data.has THEN data[f] ELSE <<>>
             /\ (/\ "terraceVertices" \in data.has
                 /\ Len(data.terraceVertices) >= 3
                 /\ {"constructionBounds", "panelBounds"} \ data.has # {}) =>
                   LET box == BoundsOfVertices(data.terraceVertices)
                   IN  /\ constructionBounds' =
                             [minX |-> box.minX - 10, maxX |-> box.maxX + 10,
                              minY |-> box.minY - 10, maxY |-> box.maxY + 10]
                       /\ panelBounds' =
                             [minX |-> box.minX - 50, maxX |-> box.maxX + 50,
                              minY |-> box.minY - 50, maxY |-> box.maxY + 50]
             /\ KeepsUnnamed(panelConfig,
                             IF "panelConfig" \in data.has THEN data.panelConfig
                             ELSE <<>>, panelConfig')
             /\ KeepsUnnamed(textConfig,
                             IF "textConfig" \in data.has THEN data.textConfig
                             ELSE <<>>, textConfig')]_vars

\* a record with a terrace of 4 vertices and a partial panelConfig, without
\* bounds and without beams, has just been imported into an editor that held
\* beams: the bounds are there, the beams are gone
C14_BoundsRecomputed ==
    /\ last.op = "importData" /\ last.res = "record"
    /\ "terraceVertices" \in last.a.has /\ Len(terraceVertices) >= 3
    /\ "constructionBounds" \notin last.a.has /\ "beams" \notin last.a.has
    /\ "panelConfig" \in last.a.has
    /\ constructionBounds # Null /\ panelBounds # Null
    /\ beams = <<>>
    /\ panelConfig.width = 100 /\ panelConfig.height = DefaultPanelHeight

\* the point (x, y) lies in the rectangle r, edges included
InRect(x, y, r) == r.x <= x /\ x <= r.x + r.w /\ r.y <= y /\ y <= r.y + r.h

\* the side of the line from a to b the point c lies on: 1, -1, or 0 on it
Orientation(a, b, c) ==
    LET v == (b.x - a.x) * (c.y - a.y) - (b.y - a.y) * (c.x - a.x)
    IN  IF v > 0 THEN 1 ELSE IF v < 0 THEN -1 ELSE 0

\* c, on the line through a and b, lies between them
OnSegment(a, b, c) ==
    /\ Min2(a.x, b.x) <= c.x /\ c.x <= Max2(a.x, b.x)
    /\ Min2(a.y, b.y) <= c.y /\ c.y <= Max2(a.y, b.y)

\* the segments a-b and c-d have a point in common
SegmentsMeet(a, b, c, d) ==
    LET o1 == Orientation(a, b, c)
        o2 == Orientation(a, b, d)
        o3 == Orientation(c, d, a)
        o4 == Orientation(c, d, b)
    IN  \/ o1 # o2 /\ o3 # o4
        \/ o1 = 0 /\ OnSegment(a, b, c)
        \/ o2 = 0 /\ OnSegment(a, b, d)
        \/ o3 = 0 /\ OnSegment(c, d, a)
        \/ o4 = 0 /\ OnSegment(c, d, b)

\* the segment of the beam b has a point in the rectangle r
BeamMeetsRect(b, r) ==
    LET p == Pt(b.x1, b.y1)
        q == Pt(b.x2, b.y2)
        tl == Pt(r.x, r.y)
        tr == Pt(r.x + r.w, r.y)
        br == Pt(r.x + r.w, r.y + r.h)
        bl == Pt(r.x, r.y + r.h)
    IN  \/ InRect(p.x, p.y, r) \/ InRect(q.x, q.y, r)
        \/ SegmentsMeet(p, q, tl, tr) \/ SegmentsMeet(p, q, tr, br)
        \/ SegmentsMeet(p, q, br, bl) \/ SegmentsMeet(p, q, bl, tl)

\* the shape of the element e of a kind has a point in the rectangle r (a
\* text is the rectangle of its glyphs, above its base line, in pixels)
ShapeMeetsRect(kind, e, r) ==
    CASE kind = "beam" -> BeamMeetsRect(e, r)
      [] kind = "text" ->
            /\ scale * e.x <= scale * (r.x + r.w)
            /\ scale * r.x <= scale * e.x + MeasureTextPx(e.text, e.size)
            /\ scale * e.y - e.size <= scale * (r.y + r.h)
            /\ r.y <= e.y
      [] OTHER ->
            /\ e.x <= r.x + r.w /\ r.x <= e.x + e.w
            /\ e.y <= r.y + r.h /\ r.y <= e.y + e.h

\* the references to the elements whose shape has a point in r
Intersecting(r) ==
    UNION {{Sel(kind, i) : i \in {j \in 1..Len(Coll(kind)) :
                                    ShapeMeetsRect(kind, Coll(kind)[j], r)}} :
           kind \in Kinds}

\* C15. Area select: on release of an area drag, the elements picked are
\* exactly the panels, obstacles, texts and beams whose shape intersects the
\* normalized drag rectangle, a beam lying entirely inside the rectangle or
\* along one of its edges included; a non-additive drag makes the selection
\* that set, an additive drag adds that set to the prior selection, and no
\* entry is there twice.
C15_AreaSelect ==
    [][(last'.op = "_onMouseUp" /\ last'.res = "_finishAreaSelect") =>
         LET picked == Intersecting(NormalizeRect(selectionRect))
             before == {selectedElements[k] : k \in 1..Len(selectedElements)}
             after == {selectedElements'[k] : k \in 1..Len(selectedElements')}
         IN  /\ after = IF isAreaAdditive THEN before \cup picked ELSE picked
             /\ Cardinality(after) = Len(selectedElements')]_vars

\* the profile _getInclinationRange resolves for the scene shown
SceneProfile == _getInclinationRange(sceneBeams, sceneConfig.inclination, terraceCenter)

\* the depths (doubled) of the ends of every beam of the scene
SceneDepths ==
    UNION {{DepthOf(sceneBeams[i].y1, terraceCenter),
            DepthOf(sceneBeams[i].y2, terraceCenter)} : i \in 1..Len(sceneBeams)}

\* the scene shown has beams, each with its coordinates
SceneOfBeams ==
    /\ sceneConfig # Null
    /\ sceneBeams # <<>>
    /\ \A i \in 1..Len(sceneBeams) : ~sceneBeams[i].nan

\* C16. Inclination depth range with open end: for every request with
\* endBeam = -1, whatever its startBeam, the resolved depth range is the
\* minimum and the maximum end depth over every beam of the collection.
C16_OpenEndRange ==
    (SceneOfBeams /\ sceneConfig.inclination.endBeam = -1) =>
        /\ SceneProfile # Null
        /\ SceneProfile.minZ = SetMin(SceneDepths)
        /\ SceneProfile.maxZ = SetMax(SceneDepths)

\* C17. Invert flag: for every request with endBeam other than -1 over a
\* non-empty beam collection, the invert flag of the resolved profile is true
\* exactly when the request's startBeam is greater than its endBeam, also
\* when one or both of them are beyond the last beam.
C17_InvertFlag ==
    (SceneOfBeams /\ sceneConfig.inclination.endBeam # -1) =>
        /\ SceneProfile # Null
        /\ SceneProfile.invert
              = (sceneConfig.inclination.startBeam > sceneConfig.inclination.endBeam)

\* the tilts _calculateBeamInclinations gives the beams of the scene shown
SceneInclinations ==
    _calculateBeamInclinations(sceneBeams, sceneConfig.inclination, terraceCenter)

\* the centre of beam i (counted from 1) is within half a centimetre of the
\* resolved depth range
CentreInRange(i) ==
    /\ SceneProfile # Null
    /\ LET centre == sceneBeams[i].y1 + sceneBeams[i].y2 - terraceCenter.y
       IN  SceneProfile.minZ - 1 <= centre /\ centre <= SceneProfile.maxZ + 1

EndsOf(b) == {Pt(b.x1, b.y1), Pt(b.x2, b.y2)}

\* beams i and j have an end in common, within 1 in both coordinates
SharesEnd(i, j) ==
    \E p \in EndsOf(sceneBeams[i]), q \in EndsOf(sceneBeams[j]) :
        Abs(p.x - q.x) <= 1 /\ Abs(p.y - q.y) <= 1

\* beam i is axis-aligned and lies on a side of the bounding box of the beams
OnFrame(i) ==
    LET b == sceneBeams[i]
        ends == UNION {EndsOf(sceneBeams[k]) : k \in 1..Len(sceneBeams)}
        xs == {p.x : p \in ends}
        ys == {p.y : p \in ends}
    IN  \/ Abs(b.y1 - b.y2) <= 1 /\ \E y \in {SetMin(ys), SetMax(ys)} : Abs(b.y1 - y) <= 1
        \/ Abs(b.x1 - b.x2) <= 1 /\ \E x \in {SetMin(xs), SetMax(xs)} : Abs(b.x1 - x) <= 1

\* beam i is not in range and shares an end with a beam that is
ConnectedToRange(i) ==
    /\ ~CentreInRange(i)
    /\ \E j \in 1..Len(sceneBeams) : CentreInRange(j) /\ SharesEnd(i, j)

\* C18. Tilt classification: each beam gets exactly one of three results:
\* (a) the requested angle, full, when its centre depth is within the
\* resolved range by half a centimetre; (b) when it is not but shares an end
\* (within 1 in both coordinates) with a beam in range, the requested angle,
\* full, if it is a frame beam, and else a quarter of the requested angle, not
\* full; (c) zero, not full, in every other case. Which beam in range it is
\* connected to makes no difference.
C18_TiltClassification ==
    SceneOfBeams =>
        /\ Len(SceneInclinations) = Len(sceneBeams)
        /\ \A i \in 1..Len(sceneBeams) :
              LET r == SceneInclinations[i]
                  degrees == sceneConfig.inclination.degrees
              IN  /\ CentreInRange(i) =>
                        r.radians = degrees /\ r.hasFullInclination
                  /\ (ConnectedToRange(i) /\ OnFrame(i)) =>
                        r.radians = degrees /\ r.hasFullInclination
                  /\ (ConnectedToRange(i) /\ ~OnFrame(i)) =>
                        4 * r.radians = degrees /\ ~r.hasFullInclination
                  /\ (~CentreInRange(i) /\ ~ConnectedToRange(i)) =>
                        r.radians = 0 /\ ~r.hasFullInclination

\* a scene tilted by 20 degrees with a beam of each result: one in range, a
\* frame beam connected to the range, a connector at 5 degrees and a beam
\* left flat
C18_EachResult ==
    /\ SceneOfBeams
    /\ sceneConfig.inclination.degrees = 20
    /\ \E i, j, k, l \in 1..Len(sceneBeams) :
          /\ CentreInRange(i) /\ SceneInclinations[i].radians = 20
          /\ ConnectedToRange(j) /\ OnFrame(j) /\ SceneInclinations[j].radians = 20
          /\ ConnectedToRange(k) /\ ~OnFrame(k) /\ SceneInclinations[k].radians = 5
          /\ ~CentreInRange(l) /\ ~ConnectedToRange(l)
          /\ SceneInclinations[l] = [radians |-> 0, hasFullInclination |-> FALSE]

\* the height of the rectangle of the panel p: the projected height h it is
\* drawn with in the plan, or its real height
RectHeight(p, reading) == IF reading = "projected" THEN p.h ELSE p.realHeight

\* the beams (counted from 1) whose segment has a point in the rectangle of
\* panel k
BeamsUnder(k, reading) ==
    {i \in 1..Len(sceneBeams) :
        BeamMeetsRect(sceneBeams[i], [x |-> panels[k].x, y |-> panels[k].y,
                                      w |-> panels[k].w,
                                      h |-> RectHeight(panels[k], reading)])}

\* the beams at the least distance from the centre of the rectangle of panel k
NearestBeams(k, reading) ==
    LET p == panels[k]
        d(i) == _distancePointToSegment(p.x + p.w \div 2,
                                        p.y + RectHeight(p, reading) \div 2,
                                        sceneBeams[i].x1, sceneBeams[i].y1,
                                        sceneBeams[i].x2, sceneBeams[i].y2)
    IN  {i \in 1..Len(sceneBeams) : \A j \in 1..Len(sceneBeams) : d(i) <= d(j)}

\* the tilt of the mesh of panel k, rising with the depth when positive
MeshTilt(k) == -scenePanels[k].rotationX

\* the tilt of panel k follows the rule for the rectangle of that reading
TiltByRule(k, reading) ==
    LET under == BeamsUnder(k, reading)
        nearest == NearestBeams(k, reading)
        magnitude == Abs(MeshTilt(k))
    IN  /\ under # {} =>
              magnitude = SetMax({SceneInclinations[i].radians : i \in under})
        /\ under = {} =>
              \E i \in nearest : magnitude = SceneInclinations[i].radians
        /\ MeshTilt(k) = IF SceneProfile.invert THEN -magnitude ELSE magnitude

\* C19. Panel effective tilt: for every panel, if at least one beam segment
\* intersects the panel rectangle the magnitude of the panel's tilt is the
\* maximum resolved tilt among the intersecting beams; if none does and there
\* are beams, it is the resolved tilt of the single beam nearest to the panel
\* centre; the sign is negated exactly when the profile's invert flag is set.
\* The panel rectangle is read the same way for all the panels of a scene:
\* as it is drawn (x, y, w, h) or with the real height.
C19_PanelTilt ==
    SceneOfBeams =>
        /\ Len(scenePanels) = Len(panels)
        /\ \E reading \in {"projected", "real"} :
              \A k \in 1..Len(panels) : TiltByRule(k, reading)

\* the height of the field of the scene at depth z for a beam tilted by rad
HeightAt(z, rad) ==
    _buildPanels_getHeightAtZ(PanelSceneRange, sceneConfig.height, z, rad)

\* the tilts of the beams under the mesh m
TiltsUnder(m) == {SceneInclinations[i + 1].radians : i \in m.intersecting}

\* the centre height an edge at depth z with support height h asks for: 1 cm
\* and half the thickness above h, carried to the centre along the panel
RequiredAtEdge(m, z, h) ==
    h + 2000 + (z - m.centerZ) * TanSigned1000(-m.rotationX) + 3 * Cos1000(m.rotationX)

\* the height of the middle plane of the mesh m at depth z, the plane rising
\* (up) or falling with the depth by the tangent of its tilt
PlaneAt(m, z, up) ==
    m.centerY + (IF up THEN 1 ELSE -1) * (z - m.centerZ) * TanSigned1000(-m.rotationX)

\* C20. Panel support height: for every panel and each of its two depth
\* edges, the support height used for the edge is at least the height of the
\* field at the edge's depth for every intersecting beam taken with its own
\* tilt (it is their maximum); the resting height of the panel is the larger
\* of the heights the two edges require; so the panel is not placed below an
\* intersecting beam at either edge.
C20_PanelSupportHeight ==
    sceneConfig # Null =>
        \A k \in 1..Len(scenePanels) :
            LET m == scenePanels[k]
            IN  /\ \A rad \in TiltsUnder(m) :
                      /\ m.supportHeightStart >= HeightAt(m.zStart, rad)
                      /\ m.supportHeightEnd >= HeightAt(m.zEnd, rad)
                /\ m.intersecting # {} =>
                      /\ \E rad \in TiltsUnder(m) :
                            m.supportHeightStart = HeightAt(m.zStart, rad)
                      /\ \E rad \in TiltsUnder(m) :
                            m.supportHeightEnd = HeightAt(m.zEnd, rad)
                /\ m.centerY = Max2(RequiredAtEdge(m, m.zStart, m.supportHeightStart),
                                    RequiredAtEdge(m, m.zEnd, m.supportHeightEnd))
                /\ \A rad \in TiltsUnder(m), up \in BOOLEAN :
                      /\ m.centerY > HeightAt(m.zStart, rad)
                      /\ m.centerY > HeightAt(m.zEnd, rad)
                      /\ PlaneAt(m, m.zStart, up) > HeightAt(m.zStart, rad)
                      /\ PlaneAt(m, m.zEnd, up) > HeightAt(m.zEnd, rad)

\* a tilted panel lying over a tilted beam and a flat one, the field higher
\* for the tilted beam at an edge of the panel
C20_OverTwoTilts ==
    /\ sceneConfig # Null
    /\ \E k \in 1..Len(scenePanels) :
          LET m == scenePanels[k]
          IN  /\ m.rotationX # 0
              /\ Cardinality(TiltsUnder(m)) > 1
              /\ \E rad \in TiltsUnder(m) : m.supportHeightEnd > HeightAt(m.zEnd, rad)

-----------------------------------------------------------------------------
(* Debounced save of the structure *)

\* the delay of the save timer, in milliseconds
SaveDelay == 500

\* the values the beamInclination field is given
FormValues == {0, 20}

\* scheduleStructureSave without the clearTimeout
scheduleStructureSave_NoClear(ts, handle, id, now) ==
    [timers |-> ts \cup {[id |-> id, due |-> now + SaveDelay]}, handle |-> [id |-> id]]

\* scheduleStructureSave(): the browser's timers and structureSaveTimer
\* afterwards; ts the timers, handle structureSaveTimer, id the handle that
\* setTimeout returns, now the time
scheduleStructureSave(ts, handle, id, now) ==
    LET cleared == IF handle # Null THEN {t \in ts : t.id # handle.id} ELSE ts
    IN  [timers |-> cleared \cup {[id |-> id, due |-> now + SaveDelay]},
         handle |-> [id |-> id]]

\* an input or change event on a field of the structure, the field now
\* holding v: sendDataToViewer3D() returns at once, the viewer window not
\* being open, and scheduleStructureSave() sets the timer
StructureInput(v) ==
    LET r == scheduleStructureSave(timers, structureSaveTimer, timerCount + 1, clock)
    IN  /\ timerCount < MaxChanges
        /\ form' = v
        /\ timers' = r.timers
        /\ structureSaveTimer' = r.handle
        /\ timerCount' = timerCount + 1
        /\ lastChange' = [at |-> clock, puts |-> Len(puts)]
        /\ last' = Call("scheduleStructureSave", v, 0, "ok")
        /\ UNCHANGED <<terraceVars, collVars, toolVars, selectedElements,
                       copiedElements, cfgVars, viewVars, clock, puts, steps>>

\* the callback of the save timer t, run by the browser when t is due:
\* structureSaveTimer = null, then the PUT with the values of the form
TimerFires(t) ==
    /\ t \in timers /\ clock >= t.due
    /\ timers' = timers \ {t}
    /\ structureSaveTimer' = Null
    /\ puts' = Append(puts, [at |-> clock, body |-> form])
    /\ last' = Call("PUT", form, 0, "ok")
    /\ UNCHANGED <<terraceVars, collVars, toolVars, selectedElements,
                   copiedElements, cfgVars, viewVars, timerCount, clock, form,
                   lastChange, steps>>

\* time passes; a timer may run later than it is due, not earlier
Tick ==
    /\ clock < MaxClock \/ \E t \in timers : t.due > clock
    /\ clock' = clock + TickMs
    /\ last' = Call("tick", 0, 0, "ok")
    /\ UNCHANGED <<terraceVars, collVars, toolVars, selectedElements,
                   copiedElements, cfgVars, viewVars, structureSaveTimer, timers,
                   timerCount, form, puts, lastChange, steps>>

Fires == \E t \in timers : TimerFires(t)

NextSave ==
    \/ \E v \in FormValues : StructureInput(v)
    \/ Fires
    \/ Tick

\* the browser runs a timer that is due, and time passes
SpecSave == Init /\ [][NextSave]_vars /\ WF_vars(Fires) /\ WF_vars(Tick)

\* where the cursor is taken while an obstacle or a beam is being drawn, in
\* addition to MousePts: straight below the first of them
DrawPts == {Pt(2, 213)}

DrawTools == {"select", "add-obstacle", "add-beam"}

\* an editor with a terrace on which obstacles and beams are drawn: the tool
\* is chosen, the button is pressed, the cursor moves, the button is released,
\* in any order. A release that the canvas does not see, or that ends a pan
\* (isPanning), is a step that is not taken.
NextDraw ==
    \/ Step /\ \E t \in DrawTools : SetTool(t)
    \/ Step /\ \E cm \in MousePts \cup {FarPt}, ans \in PromptAnswers :
                 MouseDown(cm, FALSE, ans)
    \/ Step /\ \E cm \in MousePts \cup DrawPts, d \in Deltas : MouseMove(cm, d)
    \/ Step /\ MouseUp

SpecDraw == InitFixed /\ [][NextDraw]_vars

\* the shape of the element s of a kind covers the point cm: a rectangle with
\* its edges, a text from its baseline up to its size and as wide as the
\* canvas measures it, a beam nearer than the selection threshold
Covers(kind, s, cm) ==
    CASE kind = "text" ->
            /\ s.x <= cm.x
            /\ scale * cm.x <= scale * s.x + MeasureTextPx(s.text, s.size)
            /\ scale * s.y - s.size <= scale * cm.y /\ cm.y <= s.y
      [] kind = "beam" -> BeamNear(s, cm)
      [] OTHER -> InRect(cm.x, cm.y, s)

Covering(kind, cm) == {i \in 1..Len(Coll(kind)) : Covers(kind, Coll(kind)[i], cm)}

HitOrder == <<"text", "panel", "obstacle", "beam">>

\* the element on top at cm: of the first kind in the order that covers cm,
\* the element of the highest index; Null where nothing covers cm
TopEntry(cm) ==
    LET ks == {k \in 1..Len(HitOrder) : Covering(HitOrder[k], cm) # {}}
    IN  IF ks = {} THEN Null
        ELSE Sel(HitOrder[SetMin(ks)], SetMax(Covering(HitOrder[SetMin(ks)], cm)))

EntriesOf(sel) == {sel[k] : k \in 1..Len(sel)}

\* C21. Hit-test priority: a click with the select tool resolves to the
\* topmost text covering the point, else the topmost panel, else the topmost
\* obstacle, else the topmost beam within distance 5, the topmost of a kind
\* being the one of the highest index; the click affects exactly that one
\* entry of the selection.
C21_HitPriority ==
    [][\A cm \in SelectPts, ctrl \in BOOLEAN, ans \in PromptAnswers :
          (MouseDown(cm, ctrl, ans) /\ TopEntry(cm) # Null) =>
             LET before == EntriesOf(selectedElements)
                 after == EntriesOf(selectedElements')
             IN  IF ctrl
                 THEN (before \ after) \cup (after \ before) = {TopEntry(cm)}
                 ELSE after = {TopEntry(cm)}]_vars

\* a click on the point that both texts, both panels, both obstacles and both
\* beams cover has selected the second text
C21_TextOnTop ==
    /\ last.op = "_handleSelect" /\ last.res = "hit"
    /\ selectedElements = <<Sel("text", 2)>>
    /\ \E cm \in SelectPts :
          /\ TopEntry(cm) = Sel("text", 2)
          /\ \A kind \in Kinds : Cardinality(Covering(kind, cm)) = 2

\* the sequence sel without the entry e, the others in their order
RECURSIVE Without(_, _)
Without(sel, e) ==
    IF sel = <<>> THEN <<>>
    ELSE (IF Head(sel) = e THEN <<>> ELSE <<Head(sel)>>) \o Without(Tail(sel), e)

NoDuplicates(sel) == Cardinality(EntriesOf(sel)) = Len(sel)

\* C22. Selection toggle semantics: a non-additive click on an element e
\* makes the selection exactly e; an additive click on e removes e when it is
\* selected and adds it when it is not, the other entries staying as they
\* were; a non-additive click on empty space empties the selection and an
\* additive one leaves it; after any sequence of clicks no (kind, index)
\* pair is in the selection twice.
C22_ToggleSemantics ==
    [][\A cm \in SelectPts, ctrl \in BOOLEAN, ans \in PromptAnswers :
          MouseDown(cm, ctrl, ans) =>
             LET e == TopEntry(cm)
             IN  /\ selectedElements' =
                       (IF e = Null
                        THEN IF ctrl THEN selectedElements ELSE <<>>
                        ELSE IF ~ctrl THEN <<e>>
                        ELSE IF e \in EntriesOf(selectedElements)
                        THEN Without(selectedElements, e)
                        ELSE Append(selectedElements, e))
                 /\ NoDuplicates(selectedElements')]_vars

\* a click that hit an element has left the selection empty: an additive
\* click on the one selected element
C22_ToggledOff ==
    /\ last.op = "_handleSelect" /\ last.res = "hit"
    /\ selectedElements = <<>>

\* the rectangle of the structure on a terrace: the bounding box of the
\* vertices less 5 on each side, no side below 50, centred on the box (the
\* corners doubled, so that a half is whole)
StructureRect2(vertices) ==
    LET xs == {vertices[k].x : k \in 1..Len(vertices)}
        ys == {vertices[k].y : k \in 1..Len(vertices)}
        width == SetMax({MinStructureSide, SetMax(xs) - SetMin(xs) - 2 * StructureMargin})
        length == SetMax({MinStructureSide, SetMax(ys) - SetMin(ys) - 2 * StructureMargin})
    IN  [x1 |-> SetMin(xs) + SetMax(xs) - width, x2 |-> SetMin(xs) + SetMax(xs) + width,
         y1 |-> SetMin(ys) + SetMax(ys) - length, y2 |-> SetMin(ys) + SetMax(ys) + length]

Front(seq) == SubSeq(seq, 1, Len(seq) - 1)

\* the obstacle o with its corner at the least coordinates and its width and
\* height not negative
NonNegative(o) ==
    [o EXCEPT !.x = SetMin({o.x, o.x + o.w}), !.y = SetMin({o.y, o.y + o.h}),
              !.w = Abs(o.w), !.h = Abs(o.h)]

\* the beam b is shorter than len
ShorterThan(b, len) ==
    (b.x2 - b.x1) * (b.x2 - b.x1) + (b.y2 - b.y1) * (b.y2 - b.y1) < len * len

\* C24. Degenerate creation is discarded: on release, a beam being drawn is
\* removed if its length is below 5 or an endpoint is outside
\* ConstructionBounds, and is kept as drawn otherwise; an obstacle being
\* drawn is normalised to non-negative width and height and removed if it is
\* smaller than 2 in width or in height; no other element is removed or
\* changed.
C24_DegenerateDiscarded ==
    [][(last'.op = "_onMouseUp" /\ last'.res \in {"_finishObstacle", "_finishBeam"}) =>
         IF last'.res = "_finishObstacle"
         THEN LET o == NonNegative(obstacles[Len(obstacles)])
              IN  /\ obstacles' = IF o.w < MinObstacleSize \/ o.h < MinObstacleSize
                                  THEN Front(obstacles)
                                  ELSE Append(Front(obstacles), o)
                  /\ UNCHANGED <<beams, panels, texts>>
         ELSE LET b == beams[Len(beams)]
              IN  /\ beams' = IF \/ ShorterThan(b, MinBeamLength)
                                 \/ /\ constructionBounds # Null
                                    /\ ~BeamInside(b, constructionBounds)
                              THEN Front(beams)
                              ELSE beams
                  /\ UNCHANGED <<obstacles, panels, texts>>]_vars

Unconstrained == constructionBounds = Null /\ panelBounds = Null

C26_SelectionRefers ==
    \A k \in 1..Len(selectedElements) :
        /\ selectedElements[k].type \in Kinds
        /\ selectedElements[k].index \in 1..Len(Coll(selectedElements[k].type))

\* an obstacle as _startObstacle or _updateObstacle leaves it and
\* _finishObstacle does not: of negative width or height, or of no size
Unfinished(o) == ~o.nan /\ (o.w < 0 \/ o.h < 0 \/ (o.w = 0 /\ o.h = 0))

\* C27. No abandoned in-progress element: for every interleaving of mouse
\* down, move and up (a mouse up may be missed, or swallowed while panning)
\* and setTool, whenever isDrawing is false the beams hold no beam shorter
\* than 5 and the obstacles hold no obstacle that is not normalised or has
\* no size.
C27_NoAbandonedElement ==
    ~isDrawing =>
        /\ \A k \in 1..Len(beams) :
              ~beams[k].nan => ~ShorterThan(beams[k], MinBeamLength)
        /\ \A k \in 1..Len(obstacles) : ~Unfinished(obstacles[k])

\* the end e of a beam is at the corner where the post stands
AtPost(e, post) ==
    /\ 2 * e.x - terraceCenter.x = post.x
    /\ DepthOf(e.y, terraceCenter) = post.z

\* C28. Corner posts meet the beams: the height of the post at each corner of
\* the structure's bounding rectangle equals the resolved height of every
\* beam end at that corner, taken with that beam's own resolved tilt; with no
\* beams every post has the flat base height.
C28_PostsMeetBeams ==
    sceneConfig # Null =>
        /\ \A k \in 1..Len(scenePosts), i \in 1..Len(sceneBeams) :
              \A e \in EndsOf(sceneBeams[i]) :
                 (Cardinality(EndsOf(sceneBeams[i])) = 2 /\ AtPost(e, scenePosts[k])) =>
                    scenePosts[k].postHeight
                       = SceneHeight(scenePosts[k].z, SceneInclinations[i].radians)
        /\ sceneBeams = <<>> =>
              \A k \in 1..Len(scenePosts) :
                 scenePosts[k].postHeight = 2000 * sceneConfig.height

\* C29. Clipboard snapshot: copySelected stores copies of the selected
\* elements as they are at that moment, and nothing but a later copySelected
\* changes the clipboard, so that a paste appends elements with the
\* coordinates the originals had when copied plus the offset, whatever was
\* moved, deleted or selected in between; copySelected with an empty
\* selection leaves the clipboard unchanged, and paste with an empty
\* clipboard changes nothing.
C29_ClipboardSnapshot ==
    [][/\ IF last'.op = "copySelected"
          THEN /\ Len(copiedElements') = Len(selectedElements)
               /\ \A k \in 1..Len(selectedElements) :
                     /\ copiedElements'[k].type = selectedElements[k].type
                     /\ Refers(selectedElements[k]) =>
                           copiedElements'[k].data
                              = Coll(selectedElements[k].type)[selectedElements[k].index]
          ELSE copiedElements' = copiedElements
       /\ (last'.op = "paste" /\ last'.res = "pasted") =>
             \A kind \in Kinds :
                Coll(kind)' = Coll(kind) \o
                   [k \in 1..Len(ClipOf(kind)) |->
                      Shift(kind, ClipOf(kind)[k].data, last'.a, last'.b)]
       /\ selectedElements = <<>> => copySelected = copiedElements
       /\ copiedElements = <<>> =>
             \A o \in PasteOffsets :
                /\ paste(o[1], o[2]).store = Store
                /\ paste(o[1], o[2]).sel = selectedElements]_vars

\* a panel has just been pasted at the place it was copied from plus the
\* offset, and no panel is at that place any more: the original has been
\* moved or deleted since
C29_PastedAfterMove ==
    /\ last.op = "paste" /\ last.res = "pasted"
    /\ \E k \in 1..Len(copiedElements) :
          /\ copiedElements[k].type = "panel" /\ ~copiedElements[k].data.nan
          /\ panels # <<>>
          /\ panels[Len(panels)] = Shift("panel", copiedElements[k].data, last.a, last.b)
          /\ \A i \in 1..Len(panels) : panels[i] # copiedElements[k].data

\* the PUT requests received since the last change of the form
PutsSinceChange == IF lastChange = Null THEN 0 ELSE Len(puts) - lastChange.puts

\* C30. Debounced structure save: at most one save timer is pending at any
\* time; each new change cancels the pending timer; and a burst of changes
\* followed by 500 ms without further change results in exactly one PUT,
\* issued after the last change (not before 500 ms have passed since it, and
\* with the values the form then has).
C30_DebouncedSave ==
    /\ [](/\ Cardinality(timers) <= 1
          /\ \A t \in timers : structureSaveTimer = [id |-> t.id]
          /\ PutsSinceChange <= 1)
    /\ [][/\ last'.op = "scheduleStructureSave" => timers \cap timers' = {}
          /\ last'.op = "PUT" =>
                /\ clock' >= lastChange.at + SaveDelay
                /\ puts'[Len(puts')].body = form]_vars
    /\ \A n \in 1..MaxChanges :
          (timerCount = n) ~>
             (timerCount > n \/ (timers = {} /\ PutsSinceChange = 1))

\* three changes of the form, the last one after a save, have been followed
\* by one more save
C30_BurstSavedOnce ==
    /\ timerCount = MaxChanges /\ timers = {}
    /\ Len(puts) = 2 /\ PutsSinceChange = 1

====
